---- MODULE Spec2Model ----
(***************************************************************************)
(* Model of the alert page of the Aurora inverter monitor                  *)
(* (src/pages/alert.py, class SolarMonitoringApp): the message-history     *)
(* ledger (message_history.json), the Telegram dispatcher                  *)
(* send_telegram_alert, the three evaluators that call it, and the poll    *)
(* cycle of run: the parallel fetch, the device files under temp/ and      *)
(* their evaluation.  The page of all plants (src/pages/all_plant.py)      *)
(* writes the same device files from its own session.                      *)
(*                                                                         *)
(* Time is in epoch seconds.  Local civil time is Asia/Bangkok, a fixed    *)
(* UTC+7 zone, so a civil time is the epoch plus 25200 seconds.            *)
(* Strings built with f-strings are modelled as tuples of their parts, so  *)
(* that string equality is tuple equality.                                 *)
(***************************************************************************)
EXTENDS Integers, Sequences, FiniteSets, TLC

VARIABLES now, ticks, calls, history, call, disk, input, temp, cycle, pool, sent

vars == <<now, ticks, calls, history, call, disk, input, temp, cycle, pool, sent>>

(***************************************************************************)
(* Bounds of the model.                                                    *)
(***************************************************************************)
\* clock steps taken in one behaviour
MaxTicks == 4
\* evaluator and cleanup invocations in one behaviour
MaxCalls == 2

(***************************************************************************)
(* Program constants.                                                      *)
(***************************************************************************)
\* GMT_PLUS_7 = pytz.timezone('Asia/Bangkok'): offset of local time from UTC
UtcOffset == 25200
\* 15 * 60: suppression and retention window of the ledger
WindowSecs == 900
\* timedelta(minutes=30): staleness threshold
StaleSecs == 1800
\* 8 <= hour <= 16: the operating window
OpenHour == 8
CloseHour == 16
\* value.iloc[-1] < 5000: low-power floor (raw units)
LowFloor == 5000
\* value.iloc[-2] > 50000: high floor of the power-drop rule (raw units)
HighFloor == 50000
\* data['value'].iloc[0] > 50: peer floor, in kW
PeerFloor == 50
\* filtered_data['value'] / 1000
WattsPerKW == 1000
\* value.size > 3
MinSamples == 3
\* threshold = 15 * 60: continuity threshold of the plant frame
GapSecs == 900
\* sampleSize=Min15: cadence of the vendor series
Cadence == 900
\* resolution of the model clock: half a duplicate window
TickSecs == WindowSecs \div 2

\* a missing value (NaN in the frame, empty cell in the CSV file)
NaN == -1

PlantName == "P"
Serials == {"A", "B"}

\* the clock value a behaviour starts at: 16:30 local time, so that the
\* operating window is open for 30 minutes and then closes (17:00)
StartTime == 16 * 3600 + 30 * 60 - UtcOffset

(***************************************************************************)
(* Civil time.                                                             *)
(***************************************************************************)
\* utc_time.astimezone(GMT_PLUS_7): civil seconds of an epoch
Local(epoch) == epoch + UtcOffset

\* time.tz_localize('Asia/Bangkok'): the epoch of a civil time
Localize(civil) == civil - UtcOffset

\* datetime.now(GMT_PLUS_7).hour
Hour(t) == (Local(t) \div 3600) % 24

\* strftime('%Y-%m-%d %H:%M'): a civil time cut to the minute
Minute(civil) == civil - (civil % 60)

(***************************************************************************)
(* The clock.  An invocation reads datetime.now(GMT_PLUS_7) several times  *)
(* (lines 117, 242, 105 and 249) and time passes between two readings.    *)
(* An operator that models an invocation takes for t the sequence of the   *)
(* readings, in the order in which the code takes them.                    *)
(***************************************************************************)
\* n readings that are all the same
Steady(from, n) == [i \in 1..n |-> from]

\* the readings n calls of datetime.now in a row may give, the first from:
\* all the same or, when the clock may step, the first k the same and the
\* others one step later
Readings(from, n, step, may_step) ==
    {[i \in 1..n |-> IF i <= k THEN from ELSE from + step] :
        k \in IF may_step THEN 1..n ELSE {n}}

\* the readings from the i-th on
From(t, i) == SubSeq(t, i, Len(t))

\* the readings of one call of send_telegram_alert (lines 242, 105, 249)
SendReadings == 3

\* those of check_inverter_time: line 117 and the dispatcher's
TimeReadings == 1 + SendReadings

\* those of the loop body of one device (lines 389-398)
SerialReadings == TimeReadings + SendReadings

\* those of compare_latest_inverter_power: the dispatcher's for every
\* device after the best
PlantReadings == SendReadings * (Cardinality(Serials) - 1)

\* the last reading
Last(t) == t[Len(t)]

(***************************************************************************)
(* Strings.                                                                *)
(***************************************************************************)
\* f"{plant_name}_{serial_id}_{kind}"
IssueId(plant, serial, kind) == <<plant, serial, kind>>

\* f"{issue_id}_resolved"
ResolvedId(issue_id) == <<issue_id[1], issue_id[2], issue_id[3] \o "_resolved">>

\* a details fingerprint: a tag and its formatted fields
Details(tag, a, b, c, d) == <<tag, a, b, c, d>>

\* issue_details=None
None == Details("None", 0, 0, 0, 0)

\* a message text: its wording and its formatted fields
Message(tag, plant, serial, a, b) == <<tag, plant, serial, a, b>>

(***************************************************************************)
(* The ledger: message_history.json, a map from issue id to entry.         *)
(***************************************************************************)
EmptyHistory == [k \in {} |-> 0]

Entry(t, details, message) ==
    [timestamp |-> t, details |-> details, message |-> message]

\* message_history[issue_id] = {...}
Put(h, k, e) == [x \in (DOMAIN h) \cup {k} |-> IF x = k THEN e ELSE h[x]]

\* message_history.pop(issue_id, None)
Pop(h, k) == [x \in (DOMAIN h) \ {k} |-> h[x]]

\* a sweep that removes nothing
clean_old_messages_keep_all(h, t) == h

\* a sweep that keeps an entry that is exactly 15 minutes old
clean_old_messages_inclusive(h, t) ==
    LET cutoff_time == t - WindowSecs
        keep == {k \in DOMAIN h : h[k].timestamp >= cutoff_time}
    IN [k \in keep |-> h[k]]

\* the entries of h whose timestamp is later than t - 15 minutes
clean_old_messages(h, t) ==
    LET cutoff_time == t - WindowSecs
        keep == {k \in DOMAIN h : h[k].timestamp > cutoff_time}
    IN [k \in keep |-> h[k]]

\* the states of the ledger file: "ok" can be read and written;
\* "unreadable" cannot be opened for reading (its permissions forbid it)
\* but can be written; "corrupt" does not hold JSON; "unwritable" cannot be
\* opened for writing; "full" can be opened for writing, which empties it,
\* but takes no byte (no space left, file size limit)
\* a load that takes whatever the file holds for a ledger
load_message_history_unguarded(file, state) == file

\* lines 84-93: {} when the file is missing or when open or json.load
\* raises (an emptied file holds no JSON and loads as {} too)
load_message_history(file, state) ==
    IF state \in {"unreadable", "corrupt"} THEN EmptyHistory ELSE file

\* lines 95-101: the file and its state after open(file, 'w') and
\* json.dump of h; an error is logged.  When open raises the file stays as
\* it was; when the write raises after open has truncated the file, the
\* file is left empty; a write that succeeds replaces what a corrupt file
\* held and leaves the permissions of an unreadable one as they were
save_message_history(file, state, h) ==
    IF state = "unwritable"
    THEN [file |-> file, state |-> state]
    ELSE IF state = "full"
    THEN [file |-> EmptyHistory, state |-> state]
    ELSE IF state = "unreadable"
    THEN [file |-> h, state |-> state]
    ELSE [file |-> h, state |-> "ok"]

(***************************************************************************)
(* The Telegram request of send_telegram_alert.  The names the module      *)
(* binds at top level are its imports, logger, GMT_PLUS_7, the class and   *)
(* main; the f-string of the URL reads the bare name BOT_TOKEN.            *)
(***************************************************************************)
ModuleGlobals ==
    {"st", "pd", "px", "requests", "pytz", "os", "csv", "json", "logging",
     "datetime", "timedelta", "ThreadPoolExecutor", "as_completed", "retry",
     "stop_after_attempt", "wait_exponential", "retry_if_exception_type",
     "st_autorefresh", "logger", "GMT_PLUS_7", "SolarMonitoringApp", "main"}

\* the answers of the network to requests.post an invocation draws from:
\* none when requests.post is out of reach
Answers ==
    IF {"BOT_TOKEN", "CHAT_ID"} \subseteq ModuleGlobals
    THEN {"200", "500", "raise"}
    ELSE {"unasked"}

\* lines 280-293: the try block; posted = requests.post was called
TelegramRequest(message, resp) ==
    IF ~({"BOT_TOKEN", "CHAT_ID"} \subseteq ModuleGlobals)
    THEN \* NameError, caught by except Exception
         [posted |-> FALSE, ret |-> FALSE]
    ELSE IF resp = "raise"
         THEN [posted |-> TRUE, ret |-> FALSE]
         ELSE [posted |-> TRUE, ret |-> (resp = "200")]

(***************************************************************************)
(* send_telegram_alert.  The result is the ledger file as the call leaves  *)
(* it and a record of the call: the branch taken, the value returned and   *)
(* whether requests.post was reached.  prior is the entry the file held    *)
(* for the issue id when the call started (<<>> if none).  t holds the     *)
(* readings of the clock: t[1] at the gate, t[2] in the sweep and t[3] for *)
(* current_time; a call the gate turns away takes the first only.          *)
(***************************************************************************)
\* a gate that lets the hour after closing through
InOperatingHoursLate(t) == OpenHour <= Hour(t) /\ Hour(t) <= CloseHour + 1

\* line 242: 8 <= datetime.now(GMT_PLUS_7).hour <= 16
InOperatingHours(t) == OpenHour <= Hour(t) /\ Hour(t) <= CloseHour

\* a dedup test with the age comparison the wrong way round
IsDuplicateInverted(message_history, current_time, issue_id, issue_details) ==
    /\ issue_id \in DOMAIN message_history
    /\ current_time - message_history[issue_id].timestamp > WindowSecs
    /\ message_history[issue_id].details = issue_details

\* a dedup test that does not look at the details
IsDuplicateAnyDetails(message_history, current_time, issue_id, issue_details) ==
    /\ issue_id \in DOMAIN message_history
    /\ current_time - message_history[issue_id].timestamp < WindowSecs

\* lines 252-260: the issue is in the cleaned history, was sent less than
\* 15 minutes ago and its details are the same
IsDuplicate(message_history, current_time, issue_id, issue_details) ==
    /\ issue_id \in DOMAIN message_history
    /\ current_time - message_history[issue_id].timestamp < WindowSecs
    /\ message_history[issue_id].details = issue_details

\* a record step that saves only the new entry
RecordAlone(message_history, current_time, message, issue_id, issue_details) ==
    Put(EmptyHistory, issue_id, Entry(current_time, issue_details, message))

\* lines 263-274: both branches write the same entry
Record(message_history, current_time, message, issue_id, issue_details) ==
    Put(message_history, issue_id, Entry(current_time, issue_details, message))

\* what one call did: prior is the entry the call could read for the issue
\* id, saved the ledger file as the call left it, clock the readings the
\* call took: at the gate (line 242) and, when the gate was open, in the
\* sweep (line 105) and for current_time (line 249)
SendRecord(h, saved, clock, message, issue_id, issue_details, branch, ret, posted) ==
    [id |-> issue_id, details |-> issue_details, message |-> message,
     prior |-> IF issue_id \in DOMAIN h THEN <<h[issue_id]>> ELSE <<>>,
     saved |-> saved, clock |-> clock,
     branch |-> branch, ret |-> ret, posted |-> posted]

\* a dispatcher that never forgets: it neither cleans the history it loads
\* nor looks at the age of the entry, so equal details are suppressed for good
send_telegram_alert_no_window(h, state, t, message, issue_id, issue_details, resp) ==
    LET loaded == load_message_history(h, state)
    IN IF InOperatingHours(t[1])
       THEN IF issue_id \in DOMAIN loaded /\ loaded[issue_id].details = issue_details
            THEN [history |-> h, state |-> state,
                  send |-> SendRecord(loaded, h, t, message, issue_id, issue_details,
                                      "duplicate", FALSE, FALSE)]
            ELSE LET after == save_message_history(
                                  h, state,
                                  Record(loaded, t[3], message, issue_id, issue_details))
                     req == TelegramRequest(message, resp)
                 IN [history |-> after.file, state |-> after.state,
                     send |-> SendRecord(loaded, after.file, t, message, issue_id,
                                         issue_details, "send", req.ret, req.posted)]
       ELSE [history |-> h, state |-> state,
             send |-> SendRecord(loaded, h, <<t[1]>>, message, issue_id,
                                 issue_details, "closed", FALSE, FALSE)]

\* a dispatcher that keeps the entry only when the message was delivered
send_telegram_alert_record_on_success(h, state, t, message, issue_id, issue_details, resp) ==
    LET loaded == load_message_history(h, state)
    IN IF InOperatingHours(t[1])
       THEN LET message_history == clean_old_messages(loaded, t[2])
                current_time == t[3]
            IN IF IsDuplicate(message_history, current_time, issue_id, issue_details)
               THEN [history |-> h, state |-> state,
                     send |-> SendRecord(loaded, h, t, message, issue_id, issue_details,
                                         "duplicate", FALSE, FALSE)]
               ELSE LET req == TelegramRequest(message, resp)
                        after == save_message_history(
                                     h, state,
                                     IF req.ret
                                     THEN Record(message_history, current_time, message,
                                                 issue_id, issue_details)
                                     ELSE message_history)
                    IN [history |-> after.file, state |-> after.state,
                        send |-> SendRecord(loaded, after.file, t, message, issue_id,
                                            issue_details, "send", req.ret, req.posted)]
       ELSE [history |-> h, state |-> state,
             send |-> SendRecord(loaded, h, <<t[1]>>, message, issue_id,
                                 issue_details, "closed", FALSE, FALSE)]

\* a dispatcher that saves on every detection: a suppressed alert writes the
\* cleaned history back with the timestamp of its entry refreshed
send_telegram_alert_save_on_duplicate(h, state, t, message, issue_id, issue_details, resp) ==
    LET loaded == load_message_history(h, state)
    IN IF InOperatingHours(t[1])
       THEN LET message_history == clean_old_messages(loaded, t[2])
                current_time == t[3]
                after == save_message_history(
                             h, state,
                             Record(message_history, current_time, message,
                                    issue_id, issue_details))
            IN IF IsDuplicate(message_history, current_time, issue_id, issue_details)
               THEN [history |-> after.file, state |-> after.state,
                     send |-> SendRecord(loaded, after.file, t, message, issue_id,
                                         issue_details, "duplicate", FALSE, FALSE)]
               ELSE LET req == TelegramRequest(message, resp)
                    IN [history |-> after.file, state |-> after.state,
                        send |-> SendRecord(loaded, after.file, t, message, issue_id,
                                            issue_details, "send", req.ret, req.posted)]
       ELSE [history |-> h, state |-> state,
             send |-> SendRecord(loaded, h, <<t[1]>>, message, issue_id,
                                 issue_details, "closed", FALSE, FALSE)]

\* lines 230-295; h is the ledger file and state what can be done with it
send_telegram_alert(h, state, t, message, issue_id, issue_details, resp) ==
    LET loaded == load_message_history(h, state)
    IN IF InOperatingHours(t[1])
       THEN LET message_history == clean_old_messages(loaded, t[2])
                current_time == t[3]
            IN IF IsDuplicate(message_history, current_time, issue_id, issue_details)
               THEN \* return False before the history is saved
                    [history |-> h, state |-> state,
                     send |-> SendRecord(loaded, h, t, message, issue_id, issue_details,
                                         "duplicate", FALSE, FALSE)]
               ELSE LET after == save_message_history(
                                     h, state,
                                     Record(message_history, current_time, message,
                                            issue_id, issue_details))
                        req == TelegramRequest(message, resp)
                    IN [history |-> after.file, state |-> after.state,
                        send |-> SendRecord(loaded, after.file, t, message, issue_id,
                                            issue_details, "send", req.ret, req.posted)]
       ELSE [history |-> h, state |-> state,
             send |-> SendRecord(loaded, h, <<t[1]>>, message, issue_id,
                                 issue_details, "closed", FALSE, FALSE)]

(***************************************************************************)
(* Device files.  A row is one line of temp/<plant>/<serial>.csv:          *)
(* epoch_start, datetime (civil, as written by fetch_data_for_inverter),   *)
(* serial, value.  The value cell is the text str() gives the vendor's     *)
(* value: float tells whether that text has a decimal point ('3000.0', a   *)
(* JSON float) or not ('3000', a JSON integer); an empty cell has none.    *)
(***************************************************************************)
Row(epoch, serial, value) ==
    [epoch |-> epoch, datetime |-> Local(epoch), serial |-> serial, value |-> value,
     float |-> FALSE]

\* the file of the same numbers, each written with a decimal point
WithPoint(data) ==
    [i \in 1..Len(data) |->
        [data[i] EXCEPT !.float = (data[i].value >= 0)]]

\* data[data['value'].notnull()]
NotNull(data) == SelectSeq(data, LAMBDA r : r.value # NaN)

\* df_logger['value'].notnull().any()
AnyValue(data) == \E i \in 1..Len(data) : data[i].value # NaN

(***************************************************************************)
(* check_inverter_time: staleness of one device.  t[1] is the reading of   *)
(* line 117, the others are those of the dispatcher.                       *)
(***************************************************************************)
\* a staleness test that fires at exactly 30 minutes
IsOutdatedInclusive(t, timestamp_obj) == t - StaleSecs >= timestamp_obj

\* line 126: datetime_obj - timedelta(minutes=30) > timestamp_obj
IsOutdated(t, timestamp_obj) == t - StaleSecs > timestamp_obj

\* a staleness check that announces a resolution whether or not the issue
\* is in the history
check_inverter_time_always_resolves(h, state, t, data, plant_name, resp) ==
    LET valid == NotNull(data)
        time == valid[Len(valid)].datetime
        serial_id == data[1].serial
        issue_id == IssueId(plant_name, serial_id, "outdated")
    IN IF IsOutdated(t[1], Localize(time))
       THEN LET timestamp_str == Minute(time)
                s == send_telegram_alert(
                        h, state, From(t, 2),
                        Message("outdated", plant_name, serial_id, timestamp_str, 0),
                        issue_id, Details("last_update", timestamp_str, 0, 0, 0), resp)
            IN [history |-> s.history, state |-> s.state, ret |-> "False", branch |-> "raised",
                sends |-> <<s.send>>, marks |-> <<>>, clock |-> <<t[1]>>]
       ELSE LET s == send_telegram_alert(
                        h, state, From(t, 2),
                        Message("up-to-date", plant_name, serial_id, 0, 0),
                        ResolvedId(issue_id), None, resp)
                after == save_message_history(
                             s.history, s.state,
                             Pop(load_message_history(h, state), issue_id))
            IN [history |-> after.file, state |-> after.state, ret |-> "True",
                branch |-> "resolved", sends |-> <<s.send>>, marks |-> <<>>,
                clock |-> <<t[1]>>]

\* a staleness check that removes the issue from the history the send saved
\* instead of from the copy loaded before it
check_inverter_time_reloading(h, state, t, data, plant_name, resp) ==
    LET valid == NotNull(data)
        time == valid[Len(valid)].datetime
        serial_id == data[1].serial
        issue_id == IssueId(plant_name, serial_id, "outdated")
    IN IF IsOutdated(t[1], Localize(time))
       THEN LET timestamp_str == Minute(time)
                s == send_telegram_alert(
                        h, state, From(t, 2),
                        Message("outdated", plant_name, serial_id, timestamp_str, 0),
                        issue_id, Details("last_update", timestamp_str, 0, 0, 0), resp)
            IN [history |-> s.history, state |-> s.state, ret |-> "False", branch |-> "raised",
                sends |-> <<s.send>>, marks |-> <<>>, clock |-> <<t[1]>>]
       ELSE IF issue_id \in DOMAIN load_message_history(h, state)
            THEN LET s == send_telegram_alert(
                             h, state, From(t, 2),
                             Message("up-to-date", plant_name, serial_id, 0, 0),
                             ResolvedId(issue_id), None, resp)
                     after == save_message_history(
                                  s.history, s.state,
                                  Pop(load_message_history(s.history, s.state),
                                      issue_id))
                 IN [history |-> after.file, state |-> after.state, ret |-> "True",
                     branch |-> "resolved", sends |-> <<s.send>>, marks |-> <<>>,
                     clock |-> <<t[1]>>]
            ELSE [history |-> h, state |-> state, ret |-> "True", branch |-> "clear",
                  sends |-> <<>>, marks |-> <<>>, clock |-> <<t[1]>>]

\* lines 113-149; h is the ledger file and state what can be done with it
check_inverter_time(h, state, t, data, plant_name, resp) ==
    LET valid == NotNull(data)
        time == valid[Len(valid)].datetime
        timestamp_obj == Localize(time)
        serial_id == data[1].serial
        issue_id == IssueId(plant_name, serial_id, "outdated")
    IN IF IsOutdated(t[1], timestamp_obj)
       THEN LET timestamp_str == Minute(time)
                msg == Message("outdated", plant_name, serial_id, timestamp_str, 0)
                details == Details("last_update", timestamp_str, 0, 0, 0)
                s == send_telegram_alert(h, state, From(t, 2), msg, issue_id, details, resp)
            IN [history |-> s.history, state |-> s.state, ret |-> "False", branch |-> "raised",
                sends |-> <<s.send>>, marks |-> <<>>, clock |-> <<t[1]>>]
       ELSE LET message_history == load_message_history(h, state)
            IN IF issue_id \in DOMAIN message_history
               THEN LET resolution_msg ==
                            Message("up-to-date", plant_name, serial_id, 0, 0)
                        resolution_id == ResolvedId(issue_id)
                        s == send_telegram_alert(h, state, From(t, 2), resolution_msg,
                                                 resolution_id, None, resp)
                        after == save_message_history(
                                     s.history, s.state,
                                     Pop(message_history, issue_id))
                    IN \* the copy loaded before the send is saved over
                       \* what the send saved
                       [history |-> after.file, state |-> after.state,
                        ret |-> "True", branch |-> "resolved",
                        sends |-> <<s.send>>, marks |-> <<>>, clock |-> <<t[1]>>]
               ELSE [history |-> h, state |-> state, ret |-> "True", branch |-> "clear",
                     sends |-> <<>>, marks |-> <<>>, clock |-> <<t[1]>>]

(***************************************************************************)
(* check_low_power_period: sustained low power and power drop of one       *)
(* device, on the raw values of its file.  The function does not read the *)
(* clock: t holds the readings of the dispatcher.                          *)
(***************************************************************************)
\* the dtype read_csv gives the value column of a file of numbers:
\* float64 as soon as one cell is empty or written with a decimal point,
\* int64 otherwise
ColumnType(data) ==
    IF \E i \in 1..Len(data) : data[i].value = NaN \/ data[i].float
    THEN "float64" ELSE "int64"

\* f"{value.iloc[-1]}", lines 197 and 206: the text of a scalar of the
\* column, '3000' of an int64 column and '3000.0' of a float64 one
Shown(value, dtype) == <<dtype, value>>

\* a low-power check that is content with the last two values being low
check_low_power_period_two_low(h, state, t, data, plant_name, resp) ==
    LET serial_id == data[1].serial
        valid == NotNull(data)
        n == Len(valid)
        low_power_id == IssueId(plant_name, serial_id, "low_power")
        power_drop_id == IssueId(plant_name, serial_id, "power_drop")
    IN IF valid[n].value < LowFloor /\ n > MinSamples
       THEN IF valid[n - 1].value < LowFloor
            THEN LET start_time == Minute(valid[n - 2].datetime)
                     end_time == Minute(valid[n].datetime)
                     details == Details("low_power", start_time, end_time,
                                        Shown(valid[n].value, ColumnType(data)), 0)
                     msg == Message("low power", plant_name, serial_id,
                                    start_time, end_time)
                     s == send_telegram_alert(h, state, t, msg, low_power_id, details, resp)
                 IN [history |-> s.history, state |-> s.state, ret |-> "None", branch |-> "low_power",
                     sends |-> <<s.send>>, marks |-> <<>>, clock |-> <<>>]
            ELSE IF valid[n - 1].value > HighFloor
                 THEN LET start_time == Minute(valid[n - 1].datetime)
                          end_time == Minute(valid[n].datetime)
                          details == Details("power_drop", start_time, end_time,
                                             Shown(valid[n - 1].value, ColumnType(data)),
                                             Shown(valid[n].value, ColumnType(data)))
                          msg == Message("high power drop", plant_name, serial_id,
                                         start_time, end_time)
                          s == send_telegram_alert(h, state, t, msg, power_drop_id,
                                                   details, resp)
                      IN [history |-> s.history, state |-> s.state, ret |-> "None",
                          branch |-> "power_drop", sends |-> <<s.send>>,
                          marks |-> <<>>, clock |-> <<>>]
                 ELSE [history |-> h, state |-> state, ret |-> "None", branch |-> "neither",
                       sends |-> <<>>, marks |-> <<>>, clock |-> <<>>]
       ELSE LET message_history == load_message_history(h, state)
                issues_resolved ==
                    (IF low_power_id \in DOMAIN message_history
                     THEN <<<<low_power_id, "low power">>>> ELSE <<>>)
                    \o (IF power_drop_id \in DOMAIN message_history
                        THEN <<<<power_drop_id, "power drop">>>> ELSE <<>>)
                popped == {issues_resolved[i][1] : i \in 1..Len(issues_resolved)}
                \* the entries are popped and, if there was one, the file
                \* is saved; nothing is sent
                after == IF issues_resolved # <<>>
                         THEN save_message_history(
                                  h, state,
                                  [k \in (DOMAIN message_history) \ popped
                                      |-> message_history[k]])
                         ELSE [file |-> h, state |-> state]
            IN [history |-> after.file, state |-> after.state,
                ret |-> "None",
                branch |-> IF issues_resolved = <<>> THEN "clear" ELSE "resolved",
                sends |-> <<>>, marks |-> issues_resolved, clock |-> <<>>]

\* lines 186-228
check_low_power_period(h, state, t, data, plant_name, resp) ==
    LET serial_id == data[1].serial
        valid == NotNull(data)
        n == Len(valid)
        low_power_id == IssueId(plant_name, serial_id, "low_power")
        power_drop_id == IssueId(plant_name, serial_id, "power_drop")
    IN IF valid[n].value < LowFloor /\ n > MinSamples
       THEN IF valid[n - 1].value < LowFloor /\ valid[n - 2].value < LowFloor
            THEN LET start_time == Minute(valid[n - 2].datetime)
                     end_time == Minute(valid[n].datetime)
                     details == Details("low_power", start_time, end_time,
                                        Shown(valid[n].value, ColumnType(data)), 0)
                     msg == Message("low power", plant_name, serial_id,
                                    start_time, end_time)
                     s == send_telegram_alert(h, state, t, msg, low_power_id, details, resp)
                 IN [history |-> s.history, state |-> s.state, ret |-> "None", branch |-> "low_power",
                     sends |-> <<s.send>>, marks |-> <<>>, clock |-> <<>>]
            ELSE IF valid[n - 1].value > HighFloor
                 THEN LET start_time == Minute(valid[n - 1].datetime)
                          end_time == Minute(valid[n].datetime)
                          details == Details("power_drop", start_time, end_time,
                                             Shown(valid[n - 1].value, ColumnType(data)),
                                             Shown(valid[n].value, ColumnType(data)))
                          msg == Message("high power drop", plant_name, serial_id,
                                         start_time, end_time)
                          s == send_telegram_alert(h, state, t, msg, power_drop_id,
                                                   details, resp)
                      IN [history |-> s.history, state |-> s.state, ret |-> "None",
                          branch |-> "power_drop", sends |-> <<s.send>>,
                          marks |-> <<>>, clock |-> <<>>]
                 ELSE [history |-> h, state |-> state, ret |-> "None", branch |-> "neither",
                       sends |-> <<>>, marks |-> <<>>, clock |-> <<>>]
       ELSE LET message_history == load_message_history(h, state)
                issues_resolved ==
                    (IF low_power_id \in DOMAIN message_history
                     THEN <<<<low_power_id, "low power">>>> ELSE <<>>)
                    \o (IF power_drop_id \in DOMAIN message_history
                        THEN <<<<power_drop_id, "power drop">>>> ELSE <<>>)
                popped == {issues_resolved[i][1] : i \in 1..Len(issues_resolved)}
                \* the entries are popped and, if there was one, the file
                \* is saved; nothing is sent
                after == IF issues_resolved # <<>>
                         THEN save_message_history(
                                  h, state,
                                  [k \in (DOMAIN message_history) \ popped
                                      |-> message_history[k]])
                         ELSE [file |-> h, state |-> state]
            IN [history |-> after.file, state |-> after.state,
                ret |-> "None",
                branch |-> IF issues_resolved = <<>> THEN "clear" ELSE "resolved",
                sends |-> <<>>, marks |-> issues_resolved, clock |-> <<>>]

(***************************************************************************)
(* The plant frame of process_and_visualize_data (lines 396-414): the      *)
(* files of the plant's devices concatenated in configuration order, rows  *)
(* without a value dropped, sorted by datetime, the value of every row     *)
(* that follows its predecessor by more than 15 minutes set to missing,    *)
(* and the values converted to kW.                                         *)
(***************************************************************************)
\* all orders of 1..n
Orders(n) ==
    {p \in [1..n -> 1..n] : \A i, j \in 1..n : i # j => p[i] # p[j]}

\* sort_values(by='datetime'): rows with equal datetime come in any order
RECURSIVE SortedFrom(_, _)
SortedFrom(df, rest) ==
    IF rest = {} THEN {<<>>}
    ELSE LET firsts == {i \in rest : \A j \in rest : df[i].datetime <= df[j].datetime}
         IN UNION {{<<df[i]>> \o srt : srt \in SortedFrom(df, rest \ {i})} :
                     i \in firsts}

SortedByTime(df) == SortedFrom(df, 1..Len(df))

\* filtered_data.loc[time_diff > threshold, 'value'] = None
GapNull(df) ==
    [i \in 1..Len(df) |->
        IF i > 1 /\ df[i].datetime - df[i - 1].datetime > GapSecs
        THEN [df[i] EXCEPT !.value = NaN]
        ELSE df[i]]

\* a kW figure is a float: it is held in thousandths of a kW, in which
\* every whole number of watts has an exact figure
KWScale == WattsPerKW

\* k kW as a figure
KiloWatts(k) == k * KWScale

\* filtered_data['value'] / 1000
ToKW(df) ==
    [i \in 1..Len(df) |->
        IF df[i].value = NaN THEN df[i]
        ELSE [df[i] EXCEPT !.value = (df[i].value * KWScale) \div WattsPerKW]]

\* the frames compare_latest_inverter_power may be given for the files
FilteredData(files) == {ToKW(GapNull(srt)) : srt \in SortedByTime(NotNull(files))}

(***************************************************************************)
(* compare_latest_inverter_power: the devices of a plant against the best  *)
(* one at the latest time any of them has a value.                         *)
(***************************************************************************)
\* the rows of data at datetime time, in frame order
AtTime(data, time) == SelectSeq(data, LAMBDA r : r.datetime = time)

\* sort_values(by='value', ascending=False): missing values last, rows with
\* equal value in any order
SortedByValue(rows) ==
    {[i \in 1..Len(rows) |-> rows[p[i]]] :
        p \in {q \in Orders(Len(rows)) :
                 \A i, j \in 1..Len(rows) :
                    i < j => \/ rows[q[j]].value = NaN
                             \/ /\ rows[q[i]].value # NaN
                                /\ rows[q[i]].value >= rows[q[j]].value}}

\* data['serial'].unique()
RECURSIVE Unique(_)
Unique(serials) ==
    IF serials = <<>> THEN <<>>
    ELSE LET front == Unique(SubSeq(serials, 1, Len(serials) - 1))
             last == serials[Len(serials)]
         IN IF \E i \in 1..Len(front) : front[i] = last
            THEN front ELSE Append(front, last)

\* round(value, 2) of a kW figure: the nearest hundredth.  A figure halfway
\* between two hundredths that a float holds exactly (a multiple of an
\* eighth of a kW) goes to the even one.  Any other figure halfway between
\* goes up or down: the float nearest to it lies on one side, and the
\* round of numpy multiplies by 100 before it rounds, so the side depends on
\* the figure and on the numpy installed; half_up says which.
Round2(value, half_up) ==
    IF value = NaN THEN NaN
    ELSE LET hundredth == KWScale \div 100
             r == value % hundredth
             below == value - r
             above == below + hundredth
         IN IF 2 * r < hundredth THEN below
            ELSE IF 2 * r > hundredth THEN above
            ELSE IF value % (KWScale \div 8) = 0
                 THEN IF (below \div hundredth) % 2 = 0 THEN below ELSE above
                 ELSE IF half_up THEN above ELSE below

\* the devices after the best whose figure is halfway between two
\* hundredths and not held exactly by a float
Ties(ranked) ==
    {ranked[i].serial :
        i \in {j \in 2..Len(ranked) :
                 /\ ranked[j].value # NaN
                 /\ 2 * (ranked[j].value % (KWScale \div 100)) = KWScale \div 100
                 /\ ranked[j].value % (KWScale \div 8) # 0}}

\* a peer test that flags a device at exactly a quarter of the best
IsUnderperformingInclusive(value, top) == value # NaN /\ 4 * value <= top

\* line 162: data['value'].iloc[i] < data['value'].iloc[0] * 0.25, false for
\* a missing value
IsUnderperforming(value, top) == value # NaN /\ 4 * value < top

\* the readings of the dispatcher call of the device at place i of the
\* ranking: every device after the best has three readings of t
Slot(t, i) == SubSeq(t, SendReadings * (i - 2) + 1, SendReadings * (i - 1))

\* lines 158-182, for i, i+1, ...: r is the ledger file, its state, the
\* sends and the marks so far (indices are from 1: the code's i is i - 1); half_up is the set
\* of the devices whose figure round() takes up when it is halfway
RECURSIVE CompareLoop(_, _, _, _, _, _, _, _, _)
CompareLoop(r, t, ranked, half_up, serial_ids, time, plant_name, resp, i) ==
    IF i > Len(serial_ids) THEN r
    ELSE LET underperforming_serial == serial_ids[i]
             issue_id == IssueId(plant_name, underperforming_serial, "underperforming")
             current_value == Round2(ranked[i].value,
                                     underperforming_serial \in half_up)
             time_str == Minute(time)
             step ==
               IF IsUnderperforming(ranked[i].value, ranked[1].value)
               THEN LET msg == Message("underperforming", plant_name,
                                       underperforming_serial, current_value, time_str)
                        details == Details("value", current_value, time_str, 0, 0)
                        s == send_telegram_alert(r.history, r.state, Slot(t, i), msg,
                                                 issue_id, details, resp)
                    IN [history |-> s.history, state |-> s.state,
                        sends |-> Append(r.sends, s.send),
                        marks |-> Append(r.marks, <<underperforming_serial, "raised">>)]
               ELSE LET message_history == load_message_history(r.history, r.state)
                    IN IF issue_id \in DOMAIN message_history
                       THEN LET resolution_msg ==
                                    Message("performing normally", plant_name,
                                            underperforming_serial, current_value, 0)
                                resolution_id == ResolvedId(issue_id)
                                s == send_telegram_alert(r.history, r.state, Slot(t, i),
                                                         resolution_msg,
                                                         resolution_id, None, resp)
                                after == save_message_history(
                                             s.history, s.state,
                                             Pop(message_history, issue_id))
                            IN [history |-> after.file, state |-> after.state,
                                sends |-> Append(r.sends, s.send),
                                marks |-> Append(r.marks,
                                                 <<underperforming_serial, "resolved">>)]
                       ELSE [history |-> r.history, state |-> r.state,
                             sends |-> r.sends,
                             marks |-> Append(r.marks,
                                              <<underperforming_serial, "clear">>)]
         IN CompareLoop(step, t, ranked, half_up, serial_ids, time, plant_name,
                        resp, i + 1)

\* ranked is the outcome of the sort by value of the rows at the latest time
compare_latest_inverter_power(h, state, t, data, ranked, half_up, plant_name, resp) ==
    LET valid == NotNull(data)
        time == valid[Len(valid)].datetime
        serial_ids == Unique([i \in 1..Len(ranked) |-> ranked[i].serial])
        start == [history |-> h, state |-> state, sends |-> <<>>, marks |-> <<>>]
    IN IF ranked[1].value > KiloWatts(PeerFloor)
       THEN LET r == CompareLoop(start, t, ranked, half_up, serial_ids, time,
                                 plant_name, resp, 2)
            IN [history |-> r.history, state |-> r.state, ret |-> "None",
                branch |-> "compared",
                sends |-> r.sends, marks |-> r.marks, clock |-> <<>>]
       ELSE [history |-> h, state |-> state, ret |-> "None", branch |-> "below_floor",
             sends |-> <<>>, marks |-> <<>>, clock |-> <<>>]

(***************************************************************************)
(* The inputs of the model: the device files a fetch may have written.     *)
(* A file holds FileRows rows at the vendor's cadence, the last one at the *)
(* start time, each value missing, low or high (a file with fewer rows is  *)
(* evaluated like the one padded with missing values in front); files with *)
(* no value at all are not evaluated (line 393).                           *)
(*                                                                         *)
(* An evaluator is offered one file for every distinct content of the      *)
(* cells it reads: files that differ only in cells it never reads lead to  *)
(* the same step.                                                          *)
(***************************************************************************)
RawValues == {NaN, 3000, 60000}

\* the fewest rows that can pass value.size > 3
FileRows == MinSamples + 1

Series(serial, end, vals) ==
    [i \in 1..Len(vals) |-> Row(end - (Len(vals) - i) * Cadence, serial, vals[i])]

\* each file as the vendor's integers and as the vendor's floats give it
DeviceData ==
    [serial \in Serials |->
        LET whole == {d \in {Series(serial, StartTime, v) :
                                v \in [1..FileRows -> RawValues]} : AnyValue(d)}
        IN whole \cup {WithPoint(d) : d \in whole}]

\* the last n rows of a sequence (all of it if shorter)
LastRows(seq, n) ==
    SubSeq(seq, IF Len(seq) > n THEN Len(seq) - n + 1 ELSE 1, Len(seq))

\* what check_low_power_period (and line 394 before it) reads of a file:
\* the serial, the datetime of the last row with a value, whether its
\* value is low and more than 3 rows have one and, if so, the last three
\* of them and the dtype of the column
LowPowerReads(d) ==
    LET valid == NotNull(d)
        n == Len(valid)
    IN IF valid[n].value < LowFloor /\ n > MinSamples
       THEN <<d[1].serial, LastRows(valid, MinSamples), ColumnType(d)>>
       ELSE <<d[1].serial, valid[n].datetime>>

LowPowerData ==
    [serial \in Serials |->
        {CHOOSE d \in DeviceData[serial] : LowPowerReads(d) = x :
            x \in {LowPowerReads(d) : d \in DeviceData[serial]}}]

(***************************************************************************)
(* The files offered to the plant comparison: for each device a file with  *)
(* a row 30 minutes before the start time and one at the start time, each  *)
(* missing or holding one of three values.                                 *)
(***************************************************************************)
PeerSlots == <<StartTime - 2 * Cadence, StartTime>>

PeerFiles ==
    [serial \in Serials |->
        {[i \in 1..Len(PeerSlots) |-> Row(PeerSlots[i], serial, v[i])] :
            v \in [1..Len(PeerSlots) -> {NaN, 15000, 40000, 80000}]}]

\* lines 388-398: df = pd.concat([df, df_logger]) over the serials in
\* configuration order, for the files that hold a value
Concat(a, b) ==
    (IF AnyValue(a) THEN a ELSE <<>>) \o (IF AnyValue(b) THEN b ELSE <<>>)

\* line 400: if not df.empty
PlantFiles ==
    {Concat(a, b) : a \in PeerFiles["A"], b \in PeerFiles["B"]} \ {<<>>}

\* what compare_latest_inverter_power reads of a frame: the rows at the
\* latest time with a value
CompareReads(data) ==
    LET valid == NotNull(data)
        rows == AtTime(data, valid[Len(valid)].datetime)
    IN {rows[i] : i \in 1..Len(rows)}

PlantFrames == UNION {FilteredData(files) : files \in PlantFiles}

CompareData ==
    {CHOOSE d \in PlantFrames : CompareReads(d) = x :
        x \in {CompareReads(d) : d \in PlantFrames}}

(***************************************************************************)
(* The state machine.  call is the record of the last evaluator or         *)
(* cleanup invocation; calls counts them; history is the ledger file;      *)
(* disk tells whether the file can be read and written; input is the data  *)
(* the last invocation was given, where a specification records it.        *)
(* temp holds the device files under temp/, cycle the position of run in   *)
(* a poll cycle and pool the executor of fetch_all_data_parallel, where a  *)
(* specification follows them.  sent is the log of the dispatches, where   *)
(* a specification keeps it: for an issue id and details, the time the     *)
(* latest dispatch that carried them was stamped with.                     *)
(***************************************************************************)
\* no device file has been written
NoFiles == [serial \in Serials |-> <<>>]

\* run has not been entered
NoCycle == [pc |-> "idle"]

\* no executor exists
NoPool == [pc |-> "idle"]

NoCall == [op |-> "none", serial |-> "", branch |-> "", ret |-> "None",
           sends |-> <<>>, marks |-> <<>>, clock |-> <<>>]

\* clock holds the readings the evaluator took itself (line 117)
CallRecord(op, serial, r) ==
    [op |-> op, serial |-> serial, branch |-> r.branch, ret |-> r.ret,
     sends |-> r.sends, marks |-> r.marks, clock |-> r.clock]

\* a fixed answer of the network
SomeAnswer == CHOOSE resp \in Answers : TRUE

\* the dispatches a ledger file bears witness to: an entry is written by
\* the dispatch of its details, at its timestamp (lines 263-277)
SentOf(h) ==
    [k \in {<<id, h[id].details>> : id \in DOMAIN h} |-> h[k[1]].timestamp]

\* the log after the calls of send_telegram_alert in sends: a call that
\* dispatches is logged at its current_time
RECURSIVE Dispatched(_, _)
Dispatched(log, sends) ==
    IF sends = <<>> THEN log
    ELSE LET s == Head(sends)
             key == <<s.id, s.details>>
         IN Dispatched(
                IF s.branch = "send"
                THEN [k \in (DOMAIN log) \cup {key} |->
                        IF k = key THEN s.clock[SendReadings] ELSE log[k]]
                ELSE log,
                Tail(sends))

\* message_history.json outlives the script: the ledger files an evaluation
\* of an earlier run of the script, at the start time, has left (a
\* low_power, a power_drop or a staleness alert for device "A")
SeedHistories ==
    {EmptyHistory}
       \cup {check_low_power_period(EmptyHistory, "ok",
                                    Steady(StartTime, SendReadings),
                                    d, PlantName, SomeAnswer).history :
                 d \in {Series("A", StartTime, [i \in 1..FileRows |-> 3000]),
                        Series("A", StartTime,
                               [i \in 1..FileRows |->
                                  IF i = FileRows - 1 THEN 60000 ELSE 3000])}}
       \cup {check_inverter_time(EmptyHistory, "ok",
                                 Steady(StartTime, TimeReadings),
                                 Series("A", StartTime - 3 * Cadence,
                                        [i \in 1..FileRows |-> 3000]),
                                 PlantName, SomeAnswer).history}

Init ==
    /\ now = StartTime
    /\ ticks = 0
    /\ calls = 0
    /\ history \in SeedHistories
    /\ call = NoCall
    /\ disk = "ok"
    /\ input = <<>>
    /\ temp = NoFiles
    /\ cycle = NoCycle
    /\ pool = NoPool
    /\ sent = SentOf(history)

\* the readings an invocation that starts now may take: the clock steps at
\* most once while the invocation runs
Clock(n) == Readings(now, n, TickSecs, ticks < MaxTicks)

\* the latest reading among those in clocks, from when there is none
RECURSIVE LatestOf(_, _)
LatestOf(clocks, from) ==
    IF clocks = <<>> THEN from
    ELSE LET rest == LatestOf(Tail(clocks), from)
             t == Head(clocks)
         IN IF t # <<>> /\ Last(t) > rest THEN Last(t) ELSE rest

\* the latest reading the evaluator call r took
LatestReading(r, from) ==
    LatestOf(<<r.clock>> \o [i \in 1..Len(r.sends) |-> r.sends[i].clock], from)

\* the clock after an invocation that took the readings of r
Passed(r) ==
    /\ now' = LatestReading(r, now)
    /\ ticks' = IF LatestReading(r, now) = now THEN ticks ELSE ticks + 1

\* time passes between two invocations
Tick ==
    /\ ticks < MaxTicks
    /\ now' = now + TickSecs
    /\ ticks' = ticks + 1
    /\ call' = NoCall
    /\ UNCHANGED <<calls, history, disk, input, temp, cycle, pool, sent>>

\* process_and_visualize_data, line 394: the body of the loop for a
\* device whose file holds a value (line 393).  When check_inverter_time
\* returns True the file stays in input: line 395 comes next
CheckInverterTime ==
    /\ calls < MaxCalls
    /\ input = <<>>
    /\ \E serial \in Serials, resp \in Answers :
         \E data \in LowPowerData[serial], t \in Clock(TimeReadings) :
           LET r == check_inverter_time(history, disk, t, data, PlantName, resp)
           IN /\ history' = r.history
              /\ disk' = r.state
              /\ call' = CallRecord("check_inverter_time", serial, r)
              /\ input' = IF r.ret = "True" THEN data ELSE <<>>
              /\ sent' = Dispatched(sent, r.sends)
              /\ Passed(r)
    /\ calls' = calls + 1
    /\ UNCHANGED <<temp, cycle, pool>>

\* process_and_visualize_data, line 395: check_low_power_period on the file
\* check_inverter_time has just returned True for
CheckLowPowerPeriod ==
    /\ input # <<>>
    /\ \E resp \in Answers, t \in Clock(SendReadings) :
         LET r == check_low_power_period(history, disk, t, input, PlantName, resp)
         IN /\ history' = r.history
            /\ disk' = r.state
            /\ call' = CallRecord("check_low_power_period", input[1].serial, r)
            /\ sent' = Dispatched(sent, r.sends)
            /\ Passed(r)
    /\ input' = <<>>
    /\ calls' = calls + 1
    /\ UNCHANGED <<temp, cycle, pool>>

\* process_and_visualize_data, line 416
CompareLatestInverterPower ==
    /\ calls < MaxCalls
    /\ input = <<>>
    /\ \E data \in CompareData, resp \in Answers :
         LET valid == NotNull(data)
         IN \E ranked \in SortedByValue(AtTime(data, valid[Len(valid)].datetime)) :
            \E half_up \in SUBSET Ties(ranked), t \in Clock(PlantReadings) :
              LET r == compare_latest_inverter_power(history, disk, t, data, ranked,
                                                     half_up, PlantName, resp)
              IN /\ history' = r.history
                 /\ disk' = r.state
                 /\ call' = CallRecord("compare_latest_inverter_power", "", r)
                 /\ sent' = Dispatched(sent, r.sends)
                 /\ Passed(r)
    /\ calls' = calls + 1
    /\ UNCHANGED <<input, temp, cycle, pool>>

\* run, lines 469-471: the cleanup job at the end of the script
CleanupJob ==
    /\ calls < MaxCalls
    /\ input = <<>>
    /\ LET message_history == load_message_history(history, disk)
           after == save_message_history(history, disk,
                                         clean_old_messages(message_history, now))
       IN /\ history' = after.file
          /\ disk' = after.state
          /\ call' = [NoCall EXCEPT !.op = "cleanup",
                                    !.branch = IF after.file = history
                                               THEN "kept" ELSE "swept"]
    /\ calls' = calls + 1
    /\ UNCHANGED <<now, ticks, input, temp, cycle, pool, sent>>

Next ==
    \/ Tick
    \/ CheckInverterTime
    \/ CheckLowPowerPeriod
    \/ CompareLatestInverterPower
    \/ CleanupJob

Spec == Init /\ [][Next]_vars

(***************************************************************************)
(* The invocations of one run of the script with a ledger file that may    *)
(* fail: between two invocations the file or its device gets a fault, or   *)
(* a fault is lifted, and time passes as in any run.  Every load and every *)
(* save of an invocation meets the file in the state the one before has    *)
(* left it in.                                                             *)
(***************************************************************************)
\* the file or its device gets a fault, or a fault is lifted, while an
\* invocation is still to come
DiskFault ==
    /\ calls < MaxCalls \/ input # <<>>
    /\ \E state \in {"ok", "unreadable", "corrupt", "unwritable", "full"} \ {disk} :
         disk' = state
    /\ call' = NoCall
    /\ UNCHANGED <<now, ticks, calls, history, input, temp, cycle, pool, sent>>

FaultNext ==
    \/ Tick
    \/ CheckInverterTime
    \/ CheckLowPowerPeriod
    \/ CompareLatestInverterPower
    \/ CleanupJob
    \/ DiskFault

\* the run finds the ledger file a staleness alert of an earlier run has
\* left
FaultInit ==
    /\ Init
    /\ \E id \in DOMAIN history : history[id].details[1] = "last_update"

FaultSpec == FaultInit /\ [][FaultNext]_vars

(***************************************************************************)
(* One evaluation of one rule.  A behaviour starts from a ledger file a    *)
(* first evaluation at the start time has left, at the start time or 30    *)
(* seconds after it, and runs one evaluator on one input, which input      *)
(* records.  The inputs hold the values and sample times at which the      *)
(* rules change their verdict.                                             *)
(***************************************************************************)
RuleTimes == {StartTime, StartTime + 30}

\* last sample 29, 30 and 31 minutes, or no time at all, before the start time
RuleEnds == {StartTime - 29 * 60, StartTime - 30 * 60, StartTime - 31 * 60, StartTime}

RuleTimeData ==
    [serial \in Serials |->
        {d \in {Series(serial, end, v) : end \in RuleEnds, v \in [1..2 -> {NaN, 3000}]} :
            AnyValue(d)}]

\* raw values around the two floors of check_low_power_period
RuleValues == {NaN, 3000, 5000, 50000, 60000}

\* files of up to one row more than value.size > 3 asks for
RuleLowPowerData ==
    [serial \in Serials |->
        LET whole == {d \in {Series(serial, StartTime, v) :
                                v \in [1..(FileRows + 1) -> RuleValues]} : AnyValue(d)}
        IN whole \cup {WithPoint(d) : d \in whole}]

\* raw values around the floor and the quarter of compare_latest_inverter_power
RulePeerValues == {NaN, 3000, 20000, 40000, 50000, 50500, 80000}

RulePeerFiles ==
    [serial \in Serials |->
        {<<Row(PeerSlots[1], serial, v1), Row(PeerSlots[2], serial, v2)>> :
            v1 \in {NaN, 40000}, v2 \in RulePeerValues}]

RulePlantFrames ==
    UNION {FilteredData(files) :
             files \in {Concat(a, b) : a \in RulePeerFiles["A"],
                                       b \in RulePeerFiles["B"]} \ {<<>>}}

\* the ledgers a peer comparison at the start time may have left
RulePeerHistories ==
    UNION {LET valid == NotNull(data)
           IN UNION {{compare_latest_inverter_power(
                          EmptyHistory, "ok", Steady(StartTime, PlantReadings),
                          data, ranked, half_up,
                          PlantName, SomeAnswer).history :
                         half_up \in SUBSET Ties(ranked)} :
                  ranked \in SortedByValue(AtTime(data, valid[Len(valid)].datetime))} :
              data \in RulePlantFrames}

\* the readings an evaluation that starts now may take: a later one may be
\* the second of the two times
RuleClock(n) == Readings(now, n, 30, now = StartTime)

RuleInit ==
    /\ now \in RuleTimes
    /\ ticks = 0
    /\ calls = 0
    /\ history \in SeedHistories \cup RulePeerHistories
    /\ call = NoCall
    /\ disk = "ok"
    /\ input = <<>>
    /\ temp = NoFiles
    /\ cycle = NoCycle
    /\ pool = NoPool
    /\ sent = SentOf(EmptyHistory)

RuleCheckInverterTime ==
    /\ calls = 0
    /\ \E serial \in Serials, resp \in Answers :
         \E data \in RuleTimeData[serial], t \in RuleClock(TimeReadings) :
           LET r == check_inverter_time(history, disk, t, data, PlantName, resp)
           IN /\ history' = r.history
              /\ call' = CallRecord("check_inverter_time", serial, r)
              /\ input' = data
              /\ now' = LatestReading(r, now)
    /\ calls' = calls + 1
    /\ UNCHANGED <<ticks, disk, temp, cycle, pool, sent>>

RuleCheckLowPowerPeriod ==
    /\ calls = 0
    /\ \E serial \in Serials, resp \in Answers :
         \E data \in RuleLowPowerData[serial], t \in RuleClock(SendReadings) :
           /\ ~IsOutdated(now, Localize(NotNull(data)[Len(NotNull(data))].datetime))
           /\ LET r == check_low_power_period(history, disk, t, data, PlantName, resp)
              IN /\ history' = r.history
                 /\ call' = CallRecord("check_low_power_period", serial, r)
                 /\ input' = data
                 /\ now' = LatestReading(r, now)
    /\ calls' = calls + 1
    /\ UNCHANGED <<ticks, disk, temp, cycle, pool, sent>>

RuleCompareLatestInverterPower ==
    /\ calls = 0
    /\ \E data \in RulePlantFrames, resp \in Answers :
         LET valid == NotNull(data)
         IN \E ranked \in SortedByValue(AtTime(data, valid[Len(valid)].datetime)) :
            \E half_up \in SUBSET Ties(ranked), t \in RuleClock(PlantReadings) :
              LET r == compare_latest_inverter_power(history, disk, t, data, ranked,
                                                     half_up, PlantName, resp)
              IN /\ history' = r.history
                 /\ call' = CallRecord("compare_latest_inverter_power", "", r)
                 /\ input' = data
                 /\ now' = LatestReading(r, now)
    /\ calls' = calls + 1
    /\ UNCHANGED <<ticks, disk, temp, cycle, pool, sent>>

RuleNext ==
    \/ RuleCheckInverterTime
    \/ RuleCheckLowPowerPeriod
    \/ RuleCompareLatestInverterPower

RuleSpec == RuleInit /\ [][RuleNext]_vars

(***************************************************************************)
(* The dispatcher at the two edges of the operating window.  A behaviour   *)
(* starts at 08:00 or at 17:00 local time, or half a minute or a minute    *)
(* before, from an empty ledger or from one that holds a staleness entry   *)
(* of the day before, and runs check_inverter_time on a file that is up to *)
(* date or stale, so that the dispatcher is called for a resolution or for *)
(* an alert; the clock may step by half a minute before an invocation and  *)
(* between two readings of it.                                             *)
(***************************************************************************)
GateInit ==
    /\ now \in {Localize(hour * 3600 - back) : hour \in {OpenHour, CloseHour + 1},
                                                back \in {0, 30, 60}}
    /\ ticks = 0
    /\ calls = 0
    /\ history \in
         {EmptyHistory,
          check_inverter_time(EmptyHistory, "ok",
                              Steady(StartTime - 24 * 3600, TimeReadings),
                              Series("A", StartTime - 24 * 3600 - 2 * StaleSecs,
                                     <<3000>>),
                              PlantName, SomeAnswer).history}
    /\ call = NoCall
    /\ disk = "ok"
    /\ input = <<>>
    /\ temp = NoFiles
    /\ cycle = NoCycle
    /\ pool = NoPool
    /\ sent = SentOf(EmptyHistory)

\* process_and_visualize_data, line 394, at an edge of the window: the
\* file of the device has its last value of now or of an hour ago, or of
\* half a minute before or after either; the first reading of the clock is
\* now or half a minute later
GateCheckInverterTime ==
    /\ calls < MaxCalls
    /\ \E serial \in Serials :
         \E data \in {Series(serial, now - back + shift, <<3000>>) :
                         back \in {0, 2 * StaleSecs}, shift \in {-30, 0, 30}} :
           \E r \in {check_inverter_time(history, disk, t, data, PlantName, resp) :
                        resp \in Answers,
                        t \in Readings(now, TimeReadings, 30, TRUE)
                                \cup Readings(now + 30, TimeReadings, 30, TRUE)} :
              /\ history' = r.history
              /\ disk' = r.state
              /\ call' = CallRecord("check_inverter_time", serial, r)
              /\ input' = data
              /\ now' = LatestReading(r, now)
    /\ calls' = calls + 1
    /\ UNCHANGED <<ticks, temp, cycle, pool, sent>>

GateSpec == GateInit /\ [][GateCheckInverterTime]_vars

(***************************************************************************)
(* One poll cycle of run for the plant: the fetches of its devices         *)
(* complete in any order (fetch_all_data_parallel), their results are      *)
(* written under temp/ (save_inverter_data), the files are evaluated       *)
(* device by device and then as a plant (process_and_visualize_data), and  *)
(* the cleanup job ends the script.  An exception leaves run for the       *)
(* handler of main, which reports it and does nothing else.                *)
(***************************************************************************)
\* self.serials[plant_name]: the devices in configuration order
SerialOrder == <<"A", "B">>

\* entry.get('start') of an entry that has none
NoEpoch == 0

\* a value that is text: neither a number nor a spelling read_csv takes
\* for a missing value
Text == -2

\* an entry of the vendor's 'result' list; the value NaN stands for an
\* entry with no value, which reaches the file as an empty cell
Sample(start, value) == [start |-> start, value |-> value, float |-> FALSE]

\* the same entries with every number a JSON float
FloatSamples(entries) ==
    [i \in 1..Len(entries) |-> [entries[i] EXCEPT !.float = (entries[i].value >= 0)]]

\* entries at the vendor's cadence, the last one at the start time
Samples(vals) ==
    [i \in 1..Len(vals) |-> Sample(StartTime - (Len(vals) - i) * Cadence, vals[i])]

\* an answer of the vendor: "ok" with a result list, "http_error" for a
\* request that raises requests.RequestException, "malformed" for a body
\* whose handling raises another exception
VendorAnswer(status, result) == [status |-> status, result |-> result]

\* lines 302-333: the rows of the entries that have an epoch, in the order
\* of the answer; [] after a RequestException; any other exception leaves
\* the function
fetch_data_for_inverter(plant_name, serial, answer) ==
    IF answer.status = "malformed"
    THEN [raised |-> TRUE, plant_name |-> plant_name, serial |-> serial,
          results |-> <<>>]
    ELSE IF answer.status = "http_error"
    THEN [raised |-> FALSE, plant_name |-> plant_name, serial |-> serial,
          results |-> <<>>]
    ELSE LET entries == SelectSeq(answer.result, LAMBDA entry : entry.start # NoEpoch)
         IN [raised |-> FALSE, plant_name |-> plant_name, serial |-> serial,
             results |-> [i \in 1..Len(entries) |->
                            [Row(entries[i].start, serial, entries[i].value)
                                EXCEPT !.float = entries[i].float]]]

\* a save that keeps one file for the whole plant
RECURSIVE save_inverter_data_one_file(_, _)
save_inverter_data_one_file(fs, all_data) ==
    IF all_data = <<>> THEN fs
    ELSE LET r == Head(all_data)
         IN save_inverter_data_one_file(
                IF r.results # <<>>
                THEN [serial \in DOMAIN fs |-> r.results]
                ELSE fs,
                Tail(all_data))

\* lines 369-380: the rows written to each file: a result with rows
\* replaces the file of its device; a result without rows writes nothing
RECURSIVE save_inverter_data(_, _)
save_inverter_data(fs, all_data) ==
    IF all_data = <<>> THEN fs
    ELSE LET r == Head(all_data)
         IN save_inverter_data(
                IF r.results # <<>>
                THEN [fs EXCEPT ![r.serial] = r.results]
                ELSE fs,
                Tail(all_data))

\* src/pages/all_plant.py, lines 119-161: the page of all plants fetches
\* the same series for the same devices
all_plant_fetch_data_for_inverter(plant_name, serial, answer) ==
    IF answer.status = "malformed"
    THEN [raised |-> TRUE, plant_name |-> plant_name, serial |-> serial,
          results |-> <<>>]
    ELSE IF answer.status = "http_error"
    THEN [raised |-> FALSE, plant_name |-> plant_name, serial |-> serial,
          results |-> <<>>]
    ELSE LET entries == SelectSeq(answer.result, LAMBDA entry : entry.start # NoEpoch)
         IN [raised |-> FALSE, plant_name |-> plant_name, serial |-> serial,
             results |-> [i \in 1..Len(entries) |->
                            [Row(entries[i].start, serial, entries[i].value)
                                EXCEPT !.float = entries[i].float]]]

\* src/pages/all_plant.py, lines 195-207: the rows it writes to the same
\* files
RECURSIVE all_plant_save_inverter_data(_, _)
all_plant_save_inverter_data(fs, all_data) ==
    IF all_data = <<>> THEN fs
    ELSE LET r == Head(all_data)
         IN all_plant_save_inverter_data(
                IF r.results # <<>>
                THEN [fs EXCEPT ![r.serial] = r.results]
                ELSE fs,
                Tail(all_data))

\* widths, in characters, of the text of a value that is text
MaxText == 5

\* a file that exists and holds no byte, as open(filename, mode='w') leaves
\* it until the handle is closed (line 377; src/pages/all_plant.py, line
\* 203): written as one row without an epoch, which no writer writes
\* (line 323)
Emptied ==
    <<[epoch |-> NoEpoch, datetime |-> NaN, serial |-> "", value |-> NaN,
       float |-> FALSE]>>

\* lines 377-380, the handle is closed: the header and the rows go to the
\* start of the file in one write.  The bytes another handle has written
\* beyond their end stay, so that the rows are followed by the end of the
\* other writer's rows, the first of them cut where the write ends.  A row
\* is the epoch, the 19 characters of the datetime, the serial of one
\* character, the value (text characters of it when it is text), the unit
\* 'W', four commas and '\r\n'.  pd.read_csv (line 391) skips an empty
\* line and gives the cells of a cut row to the first columns: a row of
\* one cell has no datetime and no value, 'W' or the value in the second
\* cell is a datetime that is text, and 'W' in the fourth is a value that
\* is text.  epoch_start, which the page never reads, is missing in a cut
\* row unless digits of it are left.
Overlay(rows, file, text) ==
    LET RECURSIVE Digits(_)
        Digits(n) == IF n < 10 THEN 1 ELSE 1 + Digits(n \div 10)
        Width(r) == IF r.value = NaN THEN 0
                    ELSE IF r.value = Text THEN text
                    ELSE Digits(r.value) + (IF r.float THEN 2 ELSE 0)
        Bytes(r) == Digits(r.epoch) + 19 + 1 + Width(r) + 1 + 4 + 2
        RECURSIVE Size(_)
        Size(f) == IF f = <<>> THEN 0 ELSE Bytes(Head(f)) + Size(Tail(f))
        Blank == [epoch |-> NaN, datetime |-> NaN, serial |-> "", value |-> NaN,
                  float |-> FALSE]
        Cut(r, d) ==
            IF d <= 2 THEN <<>>
            ELSE IF d = 3 THEN <<Blank>>
            ELSE IF d <= 4 + Width(r) THEN <<[Blank EXCEPT !.datetime = Text]>>
            ELSE IF d <= 6 + Width(r)
            THEN IF Width(r) = 0 THEN <<Blank>>
                 ELSE <<[Blank EXCEPT !.datetime = Text]>>
            ELSE IF d <= 26 + Width(r)
            THEN <<[Blank EXCEPT !.datetime = Text, !.value = Text]>>
            ELSE <<[r EXCEPT !.epoch = IF d = 27 + Width(r) THEN NaN
                                       ELSE r.epoch % (10 ^ (d - 27 - Width(r)))]>>
        RECURSIVE End(_, _)
        End(f, d) ==
            IF d <= 0 THEN <<>>
            ELSE LET r == f[Len(f)]
                 IN IF d >= Bytes(r)
                    THEN Append(End(SubSeq(f, 1, Len(f) - 1), d - Bytes(r)), r)
                    ELSE Cut(r, d)
    IN IF file = Emptied \/ file = <<>> THEN rows
       ELSE rows \o End(file, Size(file) - Size(rows))

\* the rows of a frame as a set
Rows(df) == {df[i] : i \in 1..Len(df)}

\* a cell of the value column that is a string: in a file, text that is
\* neither a number nor a spelling of a missing value
HasText(data) == \E i \in 1..Len(data) : data[i].value = Text

\* line 391, pd.read_csv: when one cell of the value column holds text the
\* column has the dtype object and every cell with a value is a string
read_csv(file) ==
    IF HasText(file)
    THEN [i \in 1..Len(file) |->
            IF file[i].value = NaN THEN file[i] ELSE [file[i] EXCEPT !.value = Text]]
    ELSE file

\* lines 389-398, the body of the loop for one device: df_logger is the
\* file of the device, <<>> when there is none.  pd.read_csv raises
\* EmptyDataError on a file of no byte (line 391), pd.to_datetime raises on
\* a datetime that is text (line 116, before the clock is read), and a
\* comparison of a string with a number raises TypeError (line 192).
\* a loop body that runs check_low_power_period whatever check_inverter_time
\* has returned
ProcessSerialAlways(h, state, t, df_logger, serial, plant_name, resp) ==
    IF df_logger = <<>>
    THEN [history |-> h, state |-> state, outcome |-> "no_file", evals |-> <<>>,
          error |-> FALSE]
    ELSE IF df_logger = Emptied
    THEN [history |-> h, state |-> state, outcome |-> "raised", evals |-> <<>>,
          error |-> TRUE]
    ELSE IF ~AnyValue(df_logger)
    THEN [history |-> h, state |-> state, outcome |-> "dropped", evals |-> <<>>,
          error |-> FALSE]
    ELSE IF \E i \in 1..Len(df_logger) : df_logger[i].datetime = Text
    THEN [history |-> h, state |-> state, outcome |-> "raised", evals |-> <<>>,
          error |-> TRUE]
    ELSE LET c == check_inverter_time(h, state, SubSeq(t, 1, TimeReadings),
                                     df_logger, plant_name, resp)
             timed == CallRecord("check_inverter_time", serial, c)
         IN IF HasText(df_logger)
            THEN [history |-> c.history, state |-> c.state, outcome |-> "raised",
                  evals |-> <<timed>>, error |-> TRUE]
            ELSE LET l == check_low_power_period(
                              c.history, c.state, From(t, TimeReadings + 1),
                              df_logger, plant_name, resp)
                 IN [history |-> l.history, state |-> l.state, outcome |-> "kept",
                     evals |-> <<timed,
                                 CallRecord("check_low_power_period", serial, l)>>,
                     error |-> FALSE]

ProcessSerial(h, state, t, df_logger, serial, plant_name, resp) ==
    IF df_logger = <<>>
    THEN [history |-> h, state |-> state, outcome |-> "no_file", evals |-> <<>>,
          error |-> FALSE]
    ELSE IF df_logger = Emptied
    THEN [history |-> h, state |-> state, outcome |-> "raised", evals |-> <<>>,
          error |-> TRUE]
    ELSE IF ~AnyValue(df_logger)
    THEN [history |-> h, state |-> state, outcome |-> "dropped", evals |-> <<>>,
          error |-> FALSE]
    ELSE IF \E i \in 1..Len(df_logger) : df_logger[i].datetime = Text
    THEN [history |-> h, state |-> state, outcome |-> "raised", evals |-> <<>>,
          error |-> TRUE]
    ELSE LET c == check_inverter_time(h, state, SubSeq(t, 1, TimeReadings),
                                     df_logger, plant_name, resp)
             timed == CallRecord("check_inverter_time", serial, c)
         IN IF c.ret = "True"
            THEN IF HasText(df_logger)
                 THEN [history |-> c.history, state |-> c.state, outcome |-> "raised",
                       evals |-> <<timed>>, error |-> TRUE]
                 ELSE LET l == check_low_power_period(
                              c.history, c.state, From(t, TimeReadings + 1),
                              df_logger, plant_name, resp)
                      IN [history |-> l.history, state |-> l.state, outcome |-> "kept",
                          evals |-> <<timed,
                                      CallRecord("check_low_power_period", serial, l)>>,
                          error |-> FALSE]
            ELSE [history |-> c.history, state |-> c.state, outcome |-> "kept",
                  evals |-> <<timed>>, error |-> FALSE]

\* the answers a fetch may get: entries in time order (all high, all low,
\* a drop to zero, no value, a gap of 45 minutes, a last value 45 minutes
\* old, text among numbers, stale text, text 30 minutes old), no entry,
\* entries latest first, entries whose values are floats, an entry without
\* an epoch in front, and the two failures
VendorAnswers ==
    LET Reverse(seq) == [i \in 1..Len(seq) |-> seq[Len(seq) + 1 - i]]
    IN
    {VendorAnswer("ok", Samples(v)) :
        v \in {<<60000, 60000, 60000, 60000>>,
               <<3000, 3000, 3000, 3000>>,
               <<60000, 60000, 60000, 0>>,
               <<NaN, NaN, NaN, NaN>>,
               <<60000, NaN, NaN, 60000>>,
               <<60000, NaN, NaN, NaN>>,
               <<60000, 60000, Text, 60000>>,
               <<Text, NaN, NaN, NaN>>,
               <<NaN, Text, NaN, NaN>>}}
       \cup {VendorAnswer("ok", <<>>),
             VendorAnswer("ok", Reverse(Samples(<<60000, 60000, 60000, 60000>>))),
             VendorAnswer("ok", Reverse(Samples(<<3000, 3000, 3000, 60000>>))),
             VendorAnswer("ok", FloatSamples(Samples(<<3000, 3000, 3000, 3000>>))),
             VendorAnswer("ok", <<Sample(NoEpoch, 60000)>>
                                   \o Samples(<<60000, 60000, 60000, 60000>>)),
             VendorAnswer("http_error", <<>>),
             VendorAnswer("malformed", <<>>)}

\* temp/<plant>/<serial>.csv at the start of the cycle: none, or the file
\* a cycle an hour earlier wrote
EarlierFiles ==
    LET EarlierTime == StartTime - 4 * Cadence
    IN [serial \in Serials |->
          {<<>>,
           fetch_data_for_inverter(
               PlantName, serial,
               VendorAnswer("ok", [i \in 1..FileRows |->
                                     Sample(EarlierTime - (FileRows - i) * Cadence,
                                            60000)])).results}]

\* the ledger at the start of the cycle: one of the seeds, or the ledger a
\* low-power alert or a staleness alert 15 minutes before the start time
\* has left
CycleHistories ==
    SeedHistories
       \cup {check_low_power_period(
                 EmptyHistory, "ok", Steady(StartTime - WindowSecs, SendReadings),
                 Series("B", StartTime - WindowSecs, [i \in 1..FileRows |-> 3000]),
                 PlantName, SomeAnswer).history}
       \cup {check_inverter_time(
                 EmptyHistory, "ok", Steady(StartTime - WindowSecs, TimeReadings),
                 Series("B", StartTime - WindowSecs - 3 * Cadence,
                        [i \in 1..FileRows |-> 60000]),
                 PlantName, SomeAnswer).history}

\* files the page of all plants writes while one cycle of the alert page runs
OtherWrites == 1

\* run, line 457: the futures are submitted.  k is the place in all_results
\* of the result save_inverter_data has come to and opened tells whether
\* its file is open; writing holds the result whose file the page of all
\* plants has open and other counts the files it has opened.  found and
\* files remember the ledger and the device files the cycle started from,
\* log what was done to each file since it was last emptied (the open, and
\* the close of a handle by either page with the rows it wrote), frame the
\* rows the plant comparison was given, ranked and half_up their order by
\* value and the rounding
StartCycle ==
    [pc |-> "fetch", pending |-> Serials, all_results |-> <<>>, logged |-> {},
     k |-> 1, opened |-> FALSE, writing |-> <<>>, other |-> 0,
     i |-> 1, df |-> <<>>, drop |-> <<>>, evals |-> <<>>, warned |-> {},
     frame |-> {}, error |-> FALSE, swept |-> FALSE, found |-> EmptyHistory,
     files |-> NoFiles, log |-> [serial \in Serials |-> <<>>],
     ranked |-> <<>>, half_up |-> {}]

\* the cycles followed, each a ledger, the answers of the two fetches and
\* whether the devices have a file of the hour before: every answer for
\* the first device beside a second device with high values, from an empty
\* ledger; the answers that make the first device low, stale, absent or
\* unreadable beside every kind of second device; and each ledger an
\* earlier run has left, with devices that raise, keep or resolve its
\* entries
Cycles ==
    LET Answer(vals) == VendorAnswer("ok", Samples(vals))
        high == Answer(<<60000, 60000, 60000, 60000>>)
        low == Answer(<<3000, 3000, 3000, 3000>>)
        old == Answer(<<60000, NaN, NaN, NaN>>)
        none == Answer(<<NaN, NaN, NaN, NaN>>)
        gap == Answer(<<60000, NaN, NaN, 60000>>)
        text == Answer(<<60000, 60000, Text, 60000>>)
        old_text == Answer(<<NaN, Text, NaN, NaN>>)
        failed == VendorAnswer("http_error", <<>>)
        empty == VendorAnswer("ok", <<>>)
        broken == VendorAnswer("malformed", <<>>)
    IN {[history |-> EmptyHistory, A |-> a, B |-> high, files |-> f] :
           a \in VendorAnswers, f \in BOOLEAN}
       \cup {[history |-> EmptyHistory, A |-> a, B |-> b, files |-> f] :
                a \in {low, old, empty, text, old_text},
                b \in {low, old, none, gap, empty, failed, broken},
                f \in BOOLEAN}
       \cup {[history |-> h, A |-> a, B |-> b, files |-> TRUE] :
                h \in CycleHistories \ {EmptyHistory},
                a \in {high, low, failed, text},
                b \in {high, low, old}}

CycleInit ==
    /\ now = StartTime
    /\ ticks = 0
    /\ calls = 0
    /\ call = NoCall
    /\ disk = "ok"
    /\ \E c \in Cycles :
         /\ history = c.history
         /\ input = [serial \in Serials |-> IF serial = "A" THEN c.A ELSE c.B]
         /\ temp = [serial \in Serials |->
                      IF c.files
                      THEN CHOOSE file \in EarlierFiles[serial] : file # <<>>
                      ELSE <<>>]
    /\ cycle = [StartCycle EXCEPT !.found = history, !.files = temp]
    /\ pool = NoPool
    /\ sent = SentOf(EmptyHistory)

\* steps of the clock while one cycle runs
CycleTicks == 2

\* the readings a step of the cycle may take: time passes before the step
\* or between two readings of it
CycleClock(n) ==
    Readings(now, n, TickSecs, ticks < CycleTicks)
       \cup (IF ticks < CycleTicks THEN {Steady(now + TickSecs, n)} ELSE {})

\* the latest reading the evaluator calls of evals took
RECURSIVE LatestOfEvals(_, _)
LatestOfEvals(evals, from) ==
    IF evals = <<>> THEN from
    ELSE LatestReading(Head(evals), LatestOfEvals(Tail(evals), from))

\* lines 358-366: as_completed yields the future of a device; its result
\* is appended, its exception logged
CollectFuture ==
    /\ cycle.pc = "fetch"
    /\ \E serial \in cycle.pending :
         LET r == fetch_data_for_inverter(PlantName, serial, input[serial])
         IN cycle' = [cycle EXCEPT
                        !.pending = @ \ {serial},
                        !.all_results = IF r.raised THEN @ ELSE Append(@, r),
                        !.logged = IF r.raised THEN @ \cup {serial} ELSE @]
    /\ UNCHANGED <<now, ticks, calls, history, call, disk, input, temp, pool, sent>>

\* src/pages/all_plant.py, lines 281-282 and 195-203: the page of all
\* plants, open in another session, comes to write the file of a device
\* from its own fetch, which gets four low values up to the start time:
\* open(filename, mode='w') empties the file.  The page takes no lock, and
\* neither does the alert page.  Its writes are followed while the cycle
\* has yet to read the file
AllPlantSaveInverterData ==
    /\ cycle.writing = <<>>
    /\ cycle.other < OtherWrites
    /\ \E serial \in {SerialOrder[j] :
                         j \in (IF cycle.pc = "fetch" THEN 1
                                ELSE IF cycle.pc = "process" THEN cycle.i
                                ELSE Len(SerialOrder) + 1)..Len(SerialOrder)} :
         LET answer == VendorAnswer("ok", Samples(<<3000, 3000, 3000, 3000>>))
             r == all_plant_fetch_data_for_inverter(PlantName, serial, answer)
         IN /\ temp' = [temp EXCEPT ![serial] = Emptied]
            /\ cycle' = [cycle EXCEPT
                           !.writing = <<r>>,
                           !.other = @ + 1,
                           !.log[serial] = <<[by |-> "open", rows |-> <<>>]>>]
    /\ UNCHANGED <<now, ticks, calls, history, call, disk, input, pool, sent>>

\* src/pages/all_plant.py, lines 204-207: the with block is left and the
\* handle closed; the header and the rows reach the file.  The close is
\* followed while the cycle has yet to read the file
AllPlantClose ==
    /\ cycle.writing # <<>>
    /\ LET r == cycle.writing[1]
           rows == all_plant_save_inverter_data(NoFiles, <<r>>)
       IN /\ \/ cycle.pc = "fetch"
             \/ /\ cycle.pc = "process"
                /\ \E j \in cycle.i..Len(SerialOrder) : SerialOrder[j] = r.serial
          /\ \E files \in {[serial \in Serials |->
                                IF rows[serial] = <<>> THEN temp[serial]
                                ELSE Overlay(rows[serial], temp[serial], text)] :
                             text \in 1..MaxText} :
               temp' = files
          /\ cycle' = [cycle EXCEPT
                         !.writing = <<>>,
                         !.log[r.serial] =
                             Append(@, [by |-> "other", rows |-> rows[r.serial]])]
    /\ UNCHANGED <<now, ticks, calls, history, call, disk, input, pool, sent>>

\* run, line 460, and lines 369-377: save_inverter_data comes to the next
\* result with rows and open(filename, mode='w') empties the file of its
\* device; after the last result the function returns
SaveInverterData ==
    /\ cycle.pc = "fetch"
    /\ cycle.pending = {}
    /\ ~cycle.opened
    /\ LET rest == {j \in cycle.k..Len(cycle.all_results) :
                      save_inverter_data(NoFiles, <<cycle.all_results[j]>>)
                         # NoFiles}
       IN IF rest = {}
          THEN /\ cycle' = [cycle EXCEPT !.pc = "process"]
               /\ temp' = temp
          ELSE LET j == CHOOSE j \in rest : \A m \in rest : j <= m
                   serial == cycle.all_results[j].serial
               IN /\ temp' = [temp EXCEPT ![serial] = Emptied]
                  /\ cycle' = [cycle EXCEPT
                                 !.k = j,
                                 !.opened = TRUE,
                                 !.log[serial] = <<[by |-> "open", rows |-> <<>>]>>]
    /\ UNCHANGED <<now, ticks, calls, history, call, disk, input, pool, sent>>

\* lines 377-380: the with block is left and the handle closed; the header
\* and the rows of the result reach the file
SaveClose ==
    /\ cycle.pc = "fetch"
    /\ cycle.opened
    /\ LET r == cycle.all_results[cycle.k]
           rows == save_inverter_data(NoFiles, <<r>>)
       IN /\ \E files \in {[serial \in Serials |->
                                IF rows[serial] = <<>> THEN temp[serial]
                                ELSE Overlay(rows[serial], temp[serial], text)] :
                             text \in 1..MaxText} :
               temp' = files
          /\ cycle' = [cycle EXCEPT
                         !.k = @ + 1,
                         !.opened = FALSE,
                         !.log[r.serial] = Append(@, [by |-> "alert", rows |-> <<>>])]
    /\ UNCHANGED <<now, ticks, calls, history, call, disk, input, pool, sent>>

\* process_and_visualize_data, lines 388-398: the next device of the plant
ProcessDevice ==
    /\ cycle.pc = "process"
    /\ cycle.i <= Len(SerialOrder)
    /\ LET serial == SerialOrder[cycle.i]
           df_logger == read_csv(temp[serial])
       IN \E r \in {ProcessSerial(history, disk, t, df_logger, serial, PlantName, resp) :
                       resp \in Answers, t \in CycleClock(SerialReadings)} :
            /\ history' = r.history
            /\ disk' = r.state
            /\ now' = LatestOfEvals(r.evals, now)
            /\ ticks' = IF LatestOfEvals(r.evals, now) = now THEN ticks ELSE ticks + 1
            /\ cycle' = [cycle EXCEPT
                           !.pc = IF r.error THEN "aborted" ELSE @,
                           !.error = r.error,
                           !.i = @ + 1,
                           !.evals = @ \o r.evals,
                           !.df = IF r.outcome = "kept" THEN @ \o df_logger ELSE @,
                           !.drop = IF r.outcome = "dropped"
                                    THEN Append(@, serial) ELSE @]
    /\ UNCHANGED <<calls, call, input, temp, pool, sent>>

\* process_and_visualize_data, lines 400-416: the frame of the plant.
\* The division of a string by 1000 raises TypeError (line 414); a cell the
\* continuity rule has set to missing is not divided.  Rows of equal
\* datetime come in any order; what follows reads the rows and not their
\* order, so one order is followed for each set of rows the rule can leave.
ProcessPlantFrame ==
    /\ cycle.pc = "process"
    /\ cycle.i > Len(SerialOrder)
    /\ IF cycle.df = <<>>
       THEN /\ cycle' = [cycle EXCEPT !.pc = "cleanup"]
            /\ UNCHANGED <<now, ticks, history, disk>>
       ELSE LET warned == {cycle.drop[k] : k \in 1..Len(cycle.drop)}
                sorts == SortedByTime(NotNull(cycle.df))
            IN \E rows \in {Rows(GapNull(x)) : x \in sorts} :
                 LET srt == CHOOSE x \in sorts : Rows(GapNull(x)) = rows
                 IN
                 IF HasText(GapNull(srt))
                 THEN /\ cycle' = [cycle EXCEPT !.pc = "aborted", !.error = TRUE,
                                                !.warned = warned]
                      /\ UNCHANGED <<now, ticks, history, disk>>
                 ELSE LET data == ToKW(GapNull(srt))
                          valid == NotNull(data)
                      IN \E ranked \in SortedByValue(
                                          AtTime(data, valid[Len(valid)].datetime)) :
                         \E half_up \in SUBSET Ties(ranked) :
                         \E r \in {compare_latest_inverter_power(
                                       history, disk, t, data, ranked, half_up,
                                       PlantName, resp) :
                                       resp \in Answers,
                                       t \in CycleClock(PlantReadings)} :
                              /\ history' = r.history
                              /\ disk' = r.state
                              /\ Passed(r)
                              /\ cycle' =
                                   [cycle EXCEPT
                                      !.pc = "cleanup",
                                      !.warned = warned,
                                      !.frame = Rows(data),
                                      !.ranked = ranked,
                                      !.half_up = half_up,
                                      !.evals = Append(@,
                                          CallRecord("compare_latest_inverter_power",
                                                     "", r))]
    /\ UNCHANGED <<calls, call, input, temp, pool, sent>>

\* run, lines 469-471: the cleanup job; clean_old_messages reads the clock
\* itself (line 105)
CycleCleanup ==
    /\ cycle.pc = "cleanup"
    /\ \E t \in CycleClock(1) :
         LET message_history == load_message_history(history, disk)
             after == save_message_history(history, disk,
                                           clean_old_messages(message_history, t[1]))
         IN /\ history' = after.file
            /\ disk' = after.state
            /\ now' = t[1]
            /\ ticks' = IF t[1] = now THEN ticks ELSE ticks + 1
    /\ cycle' = [cycle EXCEPT !.pc = "done", !.swept = TRUE]
    /\ UNCHANGED <<calls, call, input, temp, pool, sent>>

CycleNext ==
    \/ CollectFuture
    \/ AllPlantSaveInverterData
    \/ AllPlantClose
    \/ SaveInverterData
    \/ SaveClose
    \/ ProcessDevice
    \/ ProcessPlantFrame
    \/ CycleCleanup

CycleSpec == CycleInit /\ [][CycleNext]_vars

(***************************************************************************)
(* The executor of fetch_all_data_parallel for a configuration with more   *)
(* devices than workers, and the cycle that follows it.  The fetches are   *)
(* not told apart while they run: pool counts the futures submitted,       *)
(* waiting in the executor's queue, running in a worker, finished by       *)
(* returning and by raising, and those the as_completed loop has appended  *)
(* to all_results or logged.  The devices "A" and "B" get the answers of   *)
(* input; the other devices get no entry or fail, so that no file is       *)
(* written for them.  After the function has returned, run saves,          *)
(* evaluates and sweeps as in any cycle.                                   *)
(***************************************************************************)
\* the devices of the configuration
PoolJobs == 12

\* line 339: ThreadPoolExecutor(max_workers=10)
max_workers == 10

\* an executor that starts every submitted call at once
CanStartUnbounded(p) == p.queued > 0

\* a worker takes a call from the queue: there is a call waiting and fewer
\* than max_workers are running
CanStart(p) == p.queued > 0 /\ p.running < max_workers

\* a loop that is left as soon as one future has been handled
AllDoneEarly(p) == p.collected + p.logged > 0

\* lines 359-367: as_completed has yielded every future and the with block
\* has shut the executor down
AllDone(p) == p.collected + p.logged = p.submitted

\* the devices among "A" and "B" whose fetch is left by an exception
Raising ==
    {serial \in Serials :
        fetch_data_for_inverter(PlantName, serial, input[serial]).raised}

\* run, line 457: fetch_all_data_parallel is entered.  The vendor answers
\* for "A" with low values or a body that cannot be handled, for "B" with
\* high values
PoolInit ==
    /\ now = StartTime
    /\ ticks = 0
    /\ calls = 0
    /\ history = EmptyHistory
    /\ call = NoCall
    /\ disk = "ok"
    /\ input \in {[serial \in Serials |->
                      IF serial = "A" THEN a
                      ELSE VendorAnswer("ok", Samples(<<60000, 60000, 60000, 60000>>))] :
                    a \in {VendorAnswer("ok", Samples(<<3000, 3000, 3000, 3000>>)),
                           VendorAnswer("malformed", <<>>)}}
    /\ temp = NoFiles
    /\ cycle = StartCycle
    /\ pool = [pc |-> "submit", submitted |-> 0, queued |-> 0, running |-> 0,
               returned |-> 0, raised |-> 0, collected |-> 0, logged |-> 0]
    /\ sent = SentOf(EmptyHistory)

\* lines 341-356: executor.submit for the next device; after the last one
\* the as_completed loop is entered
Submit ==
    /\ pool.pc = "submit"
    /\ pool' = [pool EXCEPT
                  !.submitted = @ + 1,
                  !.queued = @ + 1,
                  !.pc = IF pool.submitted + 1 = PoolJobs THEN "collect" ELSE @]
    /\ UNCHANGED <<now, ticks, calls, history, call, disk, input, temp, cycle, sent>>

\* a worker thread starts fetch_data_for_inverter
StartFetch ==
    /\ CanStart(pool)
    /\ pool' = [pool EXCEPT !.queued = @ - 1, !.running = @ + 1]
    /\ UNCHANGED <<now, ticks, calls, history, call, disk, input, temp, cycle, sent>>

\* fetch_data_for_inverter returns its tuple (line 329 or 333)
FetchReturns ==
    /\ pool.running > 0
    /\ pool.returned < PoolJobs - Cardinality(Raising)
    /\ pool' = [pool EXCEPT !.running = @ - 1, !.returned = @ + 1]
    /\ UNCHANGED <<now, ticks, calls, history, call, disk, input, temp, cycle, sent>>

\* fetch_data_for_inverter is left by an exception
FetchRaises ==
    /\ pool.running > 0
    /\ pool.raised < PoolJobs - Cardinality(Serials \ Raising)
    /\ pool' = [pool EXCEPT !.running = @ - 1, !.raised = @ + 1]
    /\ UNCHANGED <<now, ticks, calls, history, call, disk, input, temp, cycle, sent>>

\* lines 358-364: as_completed yields a future that has returned
CollectResult ==
    /\ pool.pc = "collect"
    /\ pool.collected < pool.returned
    /\ pool' = [pool EXCEPT !.collected = @ + 1]
    /\ UNCHANGED <<now, ticks, calls, history, call, disk, input, temp, cycle, sent>>

\* lines 358-366: as_completed yields a future that has raised
LogException ==
    /\ pool.pc = "collect"
    /\ pool.logged < pool.raised
    /\ pool' = [pool EXCEPT !.logged = @ + 1]
    /\ UNCHANGED <<now, ticks, calls, history, call, disk, input, temp, cycle, sent>>

\* line 367: all_results is returned to run.  It holds the results of "A"
\* and "B" that were collected, in the order in which as_completed has
\* yielded them, among results without rows
ReturnResults ==
    /\ pool.pc = "collect"
    /\ AllDone(pool)
    /\ LET got == {fetch_data_for_inverter(PlantName, serial, input[serial]) :
                      serial \in Serials \ Raising}
       IN \E all_results \in [1..Cardinality(got) -> got] :
            /\ \A i, j \in 1..Cardinality(got) : i # j => all_results[i] # all_results[j]
            /\ cycle' = [cycle EXCEPT !.pending = {},
                                !.all_results = all_results,
                                !.logged = Raising]
    /\ pool' = [pool EXCEPT !.pc = "returned"]
    /\ UNCHANGED <<now, ticks, calls, history, call, disk, input, temp, sent>>

PoolNext ==
    \/ Submit
    \/ StartFetch
    \/ FetchReturns
    \/ FetchRaises
    \/ CollectResult
    \/ LogException
    \/ ReturnResults
    \/ AllPlantSaveInverterData
    \/ AllPlantClose
    \/ SaveInverterData
    \/ SaveClose
    \/ ProcessDevice
    \/ ProcessPlantFrame
    \/ CycleCleanup

PoolSpec == PoolInit /\ [][PoolNext]_vars

(***************************************************************************)
(* Properties.  In a state, call describes the invocation that has just    *)
(* run at time now; in a step that runs one, calls grows by one, history   *)
(* is the ledger file before it and history' the file after it.            *)
(*                                                                         *)
(* A call of send_telegram_alert dispatches when it takes the branch       *)
(* "send": it has passed the time gate and the dedup test, has saved the   *)
(* entry and runs the block that sends the message.  A message is handed   *)
(* to the notification sink when requests.post is called (posted).         *)
(***************************************************************************)
Sends == {call.sends[i] : i \in 1..Len(call.sends)}

Kinds == {"outdated", "underperforming", "low_power", "power_drop"}

IsResolvedId(id) == \E kind \in Kinds : id[3] = kind \o "_resolved"

\* the local hour of the clock is in 8..16
OperatingHours == 8 <= Hour(now) /\ Hour(now) <= 16

\* the hour the call read at its gate is in 8..16
Open(s) == 8 <= Hour(s.clock[1]) /\ Hour(s.clock[1]) <= 16

\* current_time of a call the gate let through: the time the call takes
\* for now
Stamp(s) == s.clock[SendReadings]

\* the send was for an issue whose entry held these very details
SameDetails(s) == s.prior # <<>> /\ s.prior[1].details = s.details

\* the send was for an issue whose entry held other details
ChangedDetails(s) == s.prior # <<>> /\ s.prior[1].details # s.details

\* what a ledger holds under a key
KeyState(h, k) == IF k \in DOMAIN h THEN <<h[k]>> ELSE <<>>

\* the two keys of check_low_power_period for a device
LowPowerKeys(serial) ==
    {IssueId(PlantName, serial, "low_power"), IssueId(PlantName, serial, "power_drop")}

\* the age, at current_time, of the entry the file held
PriorAge(s) == Stamp(s) - s.prior[1].timestamp

\* what C1 asks of one call of the dispatcher: during operating hours a
\* call for an issue whose entry is less than 15 minutes old and holds the
\* same details sends nothing, returns False and leaves the file as it was
Suppressed(s) ==
    (Open(s) /\ SameDetails(s) /\ PriorAge(s) < WindowSecs)
       => (s.branch = "duplicate" /\ s.ret = FALSE /\ ~s.posted
             /\ s.saved[s.id] = s.prior[1])

\* C1 as stated: a call for an issue whose entry is less than 15 minutes
\* old and holds the same details is suppressed, and two dispatches for one
\* issue with identical details are never less than 15 minutes apart.
C1_IdenticalAlertsApart ==
    [][(calls' = calls + 1)
          => \A i \in 1..Len(call'.sends) :
                LET s == call'.sends[i]
                    key == <<s.id, s.details>>
                IN /\ Suppressed(s)
                   /\ (s.branch = "send" /\ key \in DOMAIN sent)
                         => Stamp(s) - sent[key] >= WindowSecs]_vars

\* C1 as the code has it: a call for an issue whose entry is less than 15
\* minutes old and holds the same details is suppressed; a call dispatches
\* the details the entry of the issue holds only when the entry, which is
\* of the latest dispatch of these details, is at least 15 minutes old; and
\* a dispatch that follows one with identical details by less than 15
\* minutes finds the entry removed or holding other details.
C1_DuplicateSuppressed ==
    [][(calls' = calls + 1)
          => \A i \in 1..Len(call'.sends) :
                LET s == call'.sends[i]
                    key == <<s.id, s.details>>
                IN /\ Suppressed(s)
                   /\ (s.branch = "send" /\ SameDetails(s))
                         => /\ PriorAge(s) >= WindowSecs
                            /\ key \in DOMAIN sent
                            /\ sent[key] = s.prior[1].timestamp
                   /\ (/\ s.branch = "send"
                       /\ key \in DOMAIN sent
                       /\ Stamp(s) - sent[key] < WindowSecs)
                         => ~SameDetails(s)]_vars

\* a call with the details dispatched less than 15 minutes before was
\* suppressed as a duplicate
C1_Witness ==
    \E s \in Sends :
       /\ Open(s) /\ SameDetails(s) /\ PriorAge(s) < WindowSecs
       /\ s.branch = "duplicate"
       /\ <<s.id, s.details>> \in DOMAIN sent
       /\ Stamp(s) - sent[<<s.id, s.details>>] < WindowSecs

\* C2: during operating hours a call for an issue whose entry is less than
\* 15 minutes old but holds other details is not suppressed: it dispatches,
\* and the entry of the issue becomes (now, the new details, the new
\* message), in the file the call saves and in the file the evaluator leaves.
C2_ChangedDetailsRenotify ==
    \A s \in Sends :
       (Open(s) /\ ChangedDetails(s) /\ PriorAge(s) < 900)
          => /\ s.branch = "send"
             /\ s.saved[s.id] = Entry(Stamp(s), s.details, s.message)
             /\ s.id \in DOMAIN history
             /\ history[s.id] = Entry(Stamp(s), s.details, s.message)

C2_Witness ==
    \E s \in Sends :
       /\ Open(s) /\ ChangedDetails(s) /\ PriorAge(s) < 900
       /\ s.branch = "send"
       /\ history[s.id].details # s.prior[1].details

\* C3: during operating hours a call for an issue whose entry holds the same
\* details but was written more than 15 minutes ago dispatches again, and
\* the timestamp of the entry becomes now.
C3_WindowElapsedRenotify ==
    \A s \in Sends :
       (Open(s) /\ SameDetails(s) /\ PriorAge(s) > 900)
          => /\ s.branch = "send"
             /\ s.saved[s.id] = Entry(Stamp(s), s.details, s.message)
             /\ s.id \in DOMAIN history
             /\ history[s.id].timestamp = Stamp(s)

C3_Witness ==
    \E s \in Sends :
       /\ Open(s) /\ SameDetails(s) /\ PriorAge(s) > 900
       /\ s.branch = "send"
       /\ history[s.id].timestamp = Stamp(s)

\* C4: when a call dispatches, the file it saves holds for the issue the
\* entry (now, details, message); every other entry of that file is an
\* entry the file held before, unchanged; and an entry the file held before
\* and no longer holds was at least 15 minutes old.
C4_RecordIsUpsert ==
    [][(calls' = calls + 1 /\ call'.sends # <<>> /\ call'.sends[1].branch = "send")
          => LET s == call'.sends[1]
             IN /\ s.id \in DOMAIN s.saved
                /\ s.saved[s.id] = Entry(Stamp(s), s.details, s.message)
                /\ \A k \in (DOMAIN s.saved) \ {s.id} :
                      k \in DOMAIN history /\ s.saved[k] = history[k]
                /\ \A k \in (DOMAIN history) \ (DOMAIN s.saved) :
                      s.clock[2] - history[k].timestamp >= 900]_vars

C4_Witness ==
    /\ call.sends # <<>>
    /\ call.sends[1].branch = "send"
    /\ \E k \in DOMAIN call.sends[1].saved :
          /\ k # call.sends[1].id
          /\ call.sends[1].saved[k].timestamp < Stamp(call.sends[1])

\* C5: during operating hours every call that passes the dedup test hands
\* the message to the notification sink, and the call returns True exactly
\* when the message was sent.
C5_DispatchReachesSink ==
    \A s \in Sends :
       /\ s.branch = "send" => s.posted
       /\ s.ret = TRUE <=> (s.branch = "send" /\ s.posted)

\* C6: when an evaluator finds its condition absent and the file holds no
\* entry for the issue, nothing is sent and the file is left as it was.
C6_SilentResolve ==
    [][(calls' = calls + 1)
          => /\ (/\ call'.op = "check_inverter_time"
                 /\ call'.ret = "True"
                 /\ IssueId(PlantName, call'.serial, "outdated") \notin DOMAIN history)
                   => (call'.sends = <<>> /\ history' = history)
             /\ (/\ call'.op = "check_low_power_period"
                 /\ call'.branch \notin {"low_power", "power_drop"}
                 /\ IssueId(PlantName, call'.serial, "low_power") \notin DOMAIN history
                 /\ IssueId(PlantName, call'.serial, "power_drop") \notin DOMAIN history)
                   => (call'.sends = <<>> /\ history' = history)
             /\ (/\ call'.op = "compare_latest_inverter_power"
                 /\ \A i \in 1..Len(call'.marks) :
                       /\ call'.marks[i][2] # "raised"
                       /\ IssueId(PlantName, call'.marks[i][1], "underperforming")
                             \notin DOMAIN history)
                   => (call'.sends = <<>> /\ history' = history)]_vars

\* a device was found up to date and its low-power check found nothing to
\* raise and nothing to resolve, while the ledger holds entries
C6_Witness ==
    /\ call.op = "check_low_power_period"
    /\ call.branch \in {"clear", "neither"}
    /\ call.sends = <<>>
    /\ history # EmptyHistory

\* C7: when staleness or underperformance is found to hold no longer and
\* the file holds an entry for the issue, the entry is removed and exactly
\* one resolution message, under the issue id with "_resolved" appended, is
\* handed to the notification sink.
C7_ResolutionEmitted ==
    [][(calls' = calls + 1)
          => /\ (/\ call'.op = "check_inverter_time"
                 /\ call'.ret = "True"
                 /\ IssueId(PlantName, call'.serial, "outdated") \in DOMAIN history)
                   => /\ IssueId(PlantName, call'.serial, "outdated")
                            \notin DOMAIN history'
                      /\ Len(call'.sends) = 1
                      /\ call'.sends[1].id
                            = ResolvedId(IssueId(PlantName, call'.serial, "outdated"))
                      /\ call'.sends[1].posted
             /\ (call'.op = "compare_latest_inverter_power")
                   => \A i \in 1..Len(call'.marks) :
                         call'.marks[i][2] = "resolved"
                            => LET k == IssueId(PlantName, call'.marks[i][1],
                                                "underperforming")
                               IN /\ k \notin DOMAIN history'
                                  /\ Cardinality({j \in 1..Len(call'.sends) :
                                        /\ call'.sends[j].id = ResolvedId(k)
                                        /\ call'.sends[j].posted}) = 1]_vars

\* C8: when the low-power evaluator finds the condition absent and the file
\* holds an entry for the low_power or the power_drop issue of the device,
\* the entry is removed and a resolution message is sent for each of them.
C8_LowPowerResolutionSent ==
    [][(/\ calls' = calls + 1
        /\ call'.op = "check_low_power_period"
        /\ call'.branch = "resolved")
          => \A kind \in {"low_power", "power_drop"} :
                IssueId(PlantName, call'.serial, kind) \in DOMAIN history
                   => /\ IssueId(PlantName, call'.serial, kind) \notin DOMAIN history'
                      /\ \E i \in 1..Len(call'.sends) :
                            call'.sends[i].id
                               = ResolvedId(IssueId(PlantName, call'.serial, kind))]_vars

\* C9: a resolution message is never held back by an entry under the
\* derived id: the file holds no such entry when a resolution is sent, the
\* call is never taken for a duplicate, and when the evaluator has finished
\* the file holds no entry under a derived id.
C9_ResolutionNotDeduplicated ==
    /\ \A k \in DOMAIN history : ~IsResolvedId(k)
    /\ \A s \in Sends :
          IsResolvedId(s.id) => (s.prior = <<>> /\ s.branch # "duplicate")

C9_Witness ==
    /\ call.op = "check_inverter_time"
    /\ call.branch = "resolved"
    /\ \E s \in Sends :
          /\ IsResolvedId(s.id) /\ s.branch = "send"
          /\ s.id \in DOMAIN s.saved
          /\ s.id \notin DOMAIN history

\* C10 as stated: a call dispatches only while the local hour is in 8..16,
\* the hour being that of the time the call takes for now; outside it the
\* call returns False and dispatches nothing.
C10_SentInsideWindow ==
    \A s \in Sends :
       /\ (s.posted \/ s.branch = "send") => InOperatingHours(Stamp(s))
       /\ ~Open(s)
             => (s.branch = "closed" /\ s.ret = FALSE /\ ~s.posted)

\* C10 as the code has it: the hour is read once, when the call is entered
\* (line 242).  A call dispatches only if that hour is in 8..16, whatever
\* the clock shows when the message leaves; a call that reads another hour
\* returns False and dispatches nothing; and a call that reads an hour in
\* 8..16 is not turned away.
C10_TimeGate ==
    \A s \in Sends :
       /\ (s.posted \/ s.branch = "send") => Open(s)
       /\ ~Open(s)
             => (s.branch = "closed" /\ s.ret = FALSE /\ ~s.posted)
       /\ Open(s) => s.branch \in {"send", "duplicate"}

\* a call entered at 08:00:00 has dispatched
C10_Witness ==
    \E s \in Sends :
       /\ s.clock[1] = Localize(OpenHour * 3600)
       /\ s.branch = "send"

\* C11: outside the operating hours a call for a present issue still writes
\* the entry of the issue (now, details, message) to the file, while it
\* hands nothing to the notification sink and returns False.
C11_OutsideWindowBookkeeping ==
    \A s \in Sends :
       (~Open(s) /\ ~IsResolvedId(s.id))
          => /\ s.id \in DOMAIN s.saved
             /\ s.saved[s.id] = Entry(Last(s.clock), s.details, s.message)
             /\ ~s.posted
             /\ s.ret = FALSE

\* C14: after the cleanup job has run clean_old_messages at time now, the
\* file holds no entry written more than 15 minutes before now, it holds
\* every entry written at now, and every entry it holds is an entry the
\* file held before, unchanged; whether the issue was resolved plays no part.
C14_Sweep ==
    [][(calls' = calls + 1 /\ call'.op = "cleanup")
          => /\ \A k \in DOMAIN history' :
                   /\ k \in DOMAIN history
                   /\ history'[k] = history[k]
                   /\ ~(now - history'[k].timestamp > WindowSecs)
             /\ \A k \in DOMAIN history :
                   /\ history[k].timestamp = now => k \in DOMAIN history'
                   /\ now - history[k].timestamp > WindowSecs
                         => k \notin DOMAIN history']_vars

\* the cleanup job removed an entry and kept a younger one
C14_Witness ==
    /\ call.op = "cleanup"
    /\ call.branch = "swept"
    /\ \E k \in DOMAIN history : now - history[k].timestamp < WindowSecs

\* the issue ids an evaluator call has resolved
ResolvedByCall(c) ==
    IF c.op = "check_inverter_time"
    THEN IF c.branch = "resolved"
         THEN {IssueId(PlantName, c.serial, "outdated")} ELSE {}
    ELSE IF c.op = "check_low_power_period"
         THEN {c.marks[i][1] : i \in 1..Len(c.marks)}
         ELSE IF c.op = "compare_latest_inverter_power"
              THEN {IssueId(PlantName, c.marks[i][1], "underperforming") :
                       i \in {j \in 1..Len(c.marks) : c.marks[j][2] = "resolved"}}
              ELSE {}

\* C15: the sweep by age runs only in the cleanup job, after the
\* evaluators: a step that runs an evaluator removes no entry from the file
\* except the entries of the issues it resolves.
C15_SweepAfterEvaluators ==
    [][(calls' = calls + 1 /\ call'.op # "cleanup")
          => \A k \in (DOMAIN history) \ (DOMAIN history') :
                k \in ResolvedByCall(call')]_vars

\* C13: when loading the ledger file fails (it cannot be read or holds no
\* JSON), every evaluator and the dispatcher go on with an empty ledger:
\* nothing is found to resolve and no call is suppressed as a duplicate;
\* when saving fails, nothing of the new ledger reaches the file (it stays
\* as it was when it cannot be opened, and is left empty when the write
\* fails after the open) and the fault stays; in every case the evaluator
\* of either device and the plant comparison return their usual value.
C13_PersistenceFailure ==
    [][(calls' = calls + 1 /\ call'.op # "cleanup")
          => /\ call'.op = "check_inverter_time"
                   => /\ call'.ret \in {"True", "False"}
                      /\ call'.ret = "False" <=> call'.branch = "raised"
             /\ call'.op # "check_inverter_time" => call'.ret = "None"
             /\ disk \in {"unreadable", "corrupt"}
                   => /\ call'.branch # "resolved"
                      /\ \A i \in 1..Len(call'.marks) :
                            call'.marks[i][2] # "resolved"
                      /\ \A i \in 1..Len(call'.sends) :
                            /\ call'.sends[i].prior = <<>>
                            /\ call'.sends[i].branch # "duplicate"
             /\ disk = "unwritable"
                   => (history' = history /\ disk' = disk)
             /\ disk = "full"
                   => (history' \in {history, EmptyHistory} /\ disk' = disk)]_vars

\* the staleness check found an entry to resolve while the file could not
\* be written: it returned True and the entry is still in the file
C13_Witness ==
    /\ disk = "unwritable"
    /\ call.op = "check_inverter_time"
    /\ call.branch = "resolved"
    /\ call.ret = "True"
    /\ IssueId(PlantName, call.serial, "outdated") \in DOMAIN history

\* C16: for a device with a value, check_inverter_time raises the outdated
\* issue (calls the dispatcher for it and returns False) exactly when now
\* is more than 30 minutes after the time of the last row with a value.
C16_StalenessRule ==
    call.op = "check_inverter_time"
       => LET valid == NotNull(input)
              last == valid[Len(valid)].epoch
          IN /\ call.branch = "raised" <=> call.clock[1] - last > 30 * 60
             /\ call.branch = "raised"
                   <=> /\ call.ret = "False"
                       /\ Len(call.sends) = 1
                       /\ call.sends[1].id = IssueId(PlantName, call.serial, "outdated")

\* the last value is exactly 30 minutes old and the issue is not raised
C16_Witness ==
    /\ call.op = "check_inverter_time"
    /\ call.clock[1] - NotNull(input)[Len(NotNull(input))].epoch = 30 * 60
    /\ call.branch # "raised"

\* the serials for which the call flagged underperformance
Flagged == {call.marks[i][1] : i \in {j \in 1..Len(call.marks) : call.marks[j][2] = "raised"}}

\* the rows of the frame at the latest time at which a row has a value, and
\* the highest value among them
LatestRows ==
    LET valid == {input[i] : i \in {j \in 1..Len(input) : input[j].value # NaN}}
        time == CHOOSE t \in {r.datetime : r \in valid} :
                   \A r \in valid : r.datetime <= t
    IN {r \in valid : r.datetime = time}

MaxValue == CHOOSE v \in {r.value : r \in LatestRows} : \A r \in LatestRows : r.value <= v

\* C17: with the rows of the frame at the latest time at which a row has a
\* value and max_value the highest value among them (in kW), the devices
\* flagged are, if max_value > 50, exactly those with a value below a
\* quarter of max_value, and none otherwise; a device holding max_value is
\* never flagged; each flagged device gets one dispatcher call.
C17_PeerRule ==
    call.op = "compare_latest_inverter_power"
       => /\ Flagged = IF MaxValue > KiloWatts(50)
                       THEN {r.serial : r \in {x \in LatestRows : 4 * x.value < MaxValue}}
                       ELSE {}
          /\ \A r \in LatestRows : r.value = MaxValue => r.serial \notin Flagged
          /\ \A serial \in Flagged :
                \E i \in 1..Len(call.sends) :
                   call.sends[i].id = IssueId(PlantName, serial, "underperforming")
          /\ Len(call.sends) >= Cardinality(Flagged)

\* two devices have a value at the latest time, the best is above the
\* floor and the other is flagged
C17_Witness ==
    /\ call.op = "compare_latest_inverter_power"
    /\ Cardinality(LatestRows) = 2
    /\ MaxValue > KiloWatts(50)
    /\ Flagged # {}

\* the last three values of the input, when it has at least 3
LastThreeLow ==
    LET valid == NotNull(input)
        n == Len(valid)
    IN \A i \in {n - 2, n - 1, n} : valid[i].value < 5000

\* C18: for a device that is not stale and has at least 4 values,
\* check_low_power_period raises low_power (calls the dispatcher for that
\* issue) exactly when the last three values are all below 5000.
C18_LowPowerRule ==
    (call.op = "check_low_power_period" /\ Len(NotNull(input)) >= 4)
       => /\ call.branch = "low_power" <=> LastThreeLow
          /\ call.branch = "low_power"
                <=> \E i \in 1..Len(call.sends) :
                       call.sends[i].id = IssueId(PlantName, call.serial, "low_power")

\* the last value is low, the one before is not, and low_power is not raised
C18_Witness ==
    /\ call.op = "check_low_power_period"
    /\ Len(NotNull(input)) >= 4
    /\ NotNull(input)[Len(NotNull(input))].value < 5000
    /\ ~LastThreeLow
    /\ call.branch # "low_power"

\* C19: check_low_power_period raises power_drop whenever the value before
\* the last is above 50000 and the last is below 5000, two values being
\* enough.
C19_PowerDropRule ==
    (call.op = "check_low_power_period" /\ Len(NotNull(input)) >= 2)
       => LET valid == NotNull(input)
              n == Len(valid)
          IN (valid[n - 1].value > 50000 /\ valid[n].value < 5000)
                => /\ call.branch = "power_drop"
                   /\ \E i \in 1..Len(call.sends) :
                         call.sends[i].id = IssueId(PlantName, call.serial, "power_drop")

\* C20: with fewer than 4 values check_low_power_period raises no issue,
\* sends nothing and leaves the file as it was.
C20_EvaluationSkip ==
    [][(/\ calls' = calls + 1
        /\ call'.op = "check_low_power_period"
        /\ Len(NotNull(input')) < 4)
          => /\ call'.branch \notin {"low_power", "power_drop"}
             /\ call'.sends = <<>>
             /\ history' = history]_vars

(***************************************************************************)
(* Properties of a poll cycle.  input[serial] is the answer the fetch of   *)
(* the device gets in the cycle, temp the device files, cycle.evals the    *)
(* evaluator invocations so far, cycle.warned the devices reported         *)
(* deactivated.                                                            *)
(***************************************************************************)
\* the series the cycle has fetched for a device
Fetched(serial) == fetch_data_for_inverter(PlantName, serial, input[serial]).results

\* the device has been handed to check_inverter_time or check_low_power_period
Evaluated(serial) ==
    \E k \in 1..Len(cycle.evals) : cycle.evals[k].serial = serial

\* process_and_visualize_data has returned
Processed == cycle.pc \in {"cleanup", "done"}

\* C21: once the files of a cycle are processed, every device whose fetched
\* series has rows but no value in any of them is reported deactivated,
\* whatever the other devices of the plant hold, and has not been evaluated
\* for staleness or low power.
C21_Deactivation ==
    Processed =>
       \A serial \in Serials :
          (Fetched(serial) # <<>> /\ ~AnyValue(Fetched(serial)))
             => serial \in cycle.warned /\ ~Evaluated(serial)

\* row follows the previous present sample of its own device by more than
\* 900 seconds
AfterGap(present, row) ==
    LET before == {q \in Rows(present) :
                      q.serial = row.serial /\ q.datetime < row.datetime}
    IN before # {} /\ \A q \in before : row.datetime - q.datetime > GapSecs

\* C22: in the frame handed to the peer comparison, every present sample of
\* every device has its row; the value of a sample that follows the previous
\* present sample of the same device by more than 900 seconds is missing,
\* and every other value is the sample's value (in kW).
C22_GapSplitting ==
    (Processed /\ cycle.frame # {}) =>
       LET present == NotNull(cycle.df)
       IN /\ Cardinality(cycle.frame) = Len(present)
          /\ \A i \in 1..Len(present) :
                \E row \in cycle.frame :
                   /\ row.serial = present[i].serial
                   /\ row.datetime = present[i].datetime
                   /\ row.value =
                         IF AfterGap(present, present[i]) THEN NaN
                         ELSE (present[i].value * KWScale) \div WattsPerKW

\* C23: a low_power issue is raised only from three samples, and a
\* power_drop issue only from two, none of which follows the one before it
\* by more than 900 seconds.
C23_NoComparisonAcrossOutage ==
    (call.op = "check_low_power_period" /\ call.branch \in {"low_power", "power_drop"}) =>
       LET valid == NotNull(input)
           n == Len(valid)
           used == IF call.branch = "low_power" THEN 3 ELSE 2
       IN \A k \in (n - used + 2)..n :
             valid[k].datetime - valid[k - 1].datetime <= GapSecs

\* the rows of a file in another order
Shuffled(data, p) == [k \in 1..Len(data) |-> data[p[k]]]

\* C24: the staleness and low-power evaluation of a device gives the same
\* invocations, with the same outcomes and alerts, and the same ledger for
\* every order in which the rows of the series fetched in the cycle were
\* delivered.
C24_TimeOrdering ==
    [][(cycle.pc = "process" /\ cycle'.i = cycle.i + 1
          /\ temp[SerialOrder[cycle.i]] = Fetched(SerialOrder[cycle.i])) =>
          LET serial == SerialOrder[cycle.i]
              data == temp[serial]
          IN \A p \in Orders(Len(data)) :
                \E t \in CycleClock(SerialReadings) :
                   LET r == ProcessSerial(history, disk, t,
                                          read_csv(Shuffled(data, p)), serial,
                                          PlantName, SomeAnswer)
                   IN /\ cycle'.evals = cycle.evals \o r.evals
                      /\ history' = r.history]_vars

\* C25: whatever the values of the fetched entries are (numbers, none,
\* text), no step of the cycle raises an exception: the cycle is never left
\* before its end.
C25_MalformedValues == ~cycle.error /\ cycle.pc # "aborted"

\* the entries of an answer that have an epoch, in the order of the answer
WithEpoch(answer) == SelectSeq(answer.result, LAMBDA entry : entry.start # NoEpoch)

\* C26: every collected result holds one row for each entry of the answer
\* that has an epoch, with the civil time epoch + 25200 and the entry's
\* value, and nothing for the other entries; a device whose answer has no
\* entry is handed to no evaluator in the cycle.
C26_Ingestion ==
    /\ \A k \in 1..Len(cycle.all_results) :
          LET r == cycle.all_results[k]
              entries == WithEpoch(input[r.serial])
          IN /\ Len(r.results) = Len(entries)
             /\ \A i \in 1..Len(entries) :
                   /\ r.results[i].epoch = entries[i].start
                   /\ r.results[i].datetime = entries[i].start + UtcOffset
                   /\ r.results[i].value = entries[i].value
    /\ \A serial \in Serials :
          input[serial] = VendorAnswer("ok", <<>>) => ~Evaluated(serial)

\* C27: a device is handed to an evaluator only with the series fetched for
\* it in the cycle: a file an earlier cycle wrote is never evaluated, also
\* when the fetch of the cycle fails or returns no entry.
C27_FullSupersession ==
    \A serial \in Serials : Evaluated(serial) => temp[serial] = Fetched(serial)

\* C28: after an exception in the evaluation of a device or of the plant
\* frame the cycle goes on: it has a next step to take, up to the cleanup
\* job.
C28_FailureIsolation == cycle.error => (cycle.swept \/ ENABLED CycleNext)

\* the rows save_inverter_data hands the file of a device
Written(all_results, serial) == save_inverter_data(NoFiles, all_results)[serial]

\* the file of a device after the opens and closes of log, when the alert
\* page writes the rows of mine
RECURSIVE Laid(_, _, _, _)
Laid(file, log, mine, text) ==
    IF log = <<>> THEN file
    ELSE LET e == Head(log)
         IN Laid(IF e.by = "open" THEN Emptied
                 ELSE Overlay(IF e.by = "alert" THEN mine ELSE e.rows, file, text),
                 Tail(log), mine, text)

\* the file of a device as its loop body meets it in a cycle that started
\* as c did, collected all_results and saw the same opens and closes
FileAtDevice(c, all_results, serial, text) ==
    Laid(c.files[serial], c.log[serial], Written(all_results, serial), text)

\* n readings: those of clock, the last one repeated
Pad(clock, n) ==
    [k \in 1..n |-> IF k <= Len(clock) THEN clock[k] ELSE Last(clock)]

\* the readings of the dispatcher in the evaluator call e, those of a call
\* that was not made being of no account
SendClock(e, fill) ==
    IF e.sends = <<>> THEN Steady(fill, SendReadings)
    ELSE Pad(e.sends[1].clock, SendReadings)

\* the readings the loop body of a device took in the calls of mine
BodyReadings(mine) ==
    IF mine = <<>> THEN Steady(StartTime, SerialReadings)
    ELSE mine[1].clock
            \o SendClock(mine[1], mine[1].clock[1])
            \o (IF Len(mine) > 1 THEN SendClock(mine[2], mine[1].clock[1])
                ELSE Steady(mine[1].clock[1], SendReadings))

\* the loop bodies of the devices from place i on, run again from acc with
\* the files of all_results and the readings of the clock the cycle c took
RECURSIVE ReplayDevices(_, _, _, _, _, _)
ReplayDevices(acc, c, all_results, resp, i, text) ==
    IF i > Len(SerialOrder) \/ acc.error THEN acc
    ELSE LET serial == SerialOrder[i]
             mine == SelectSeq(c.evals, LAMBDA e : e.serial = serial)
             df_logger == read_csv(FileAtDevice(c, all_results, serial, text[serial]))
             r == ProcessSerial(acc.history, "ok", BodyReadings(mine), df_logger,
                                serial, PlantName, resp)
         IN ReplayDevices(
                [history |-> r.history,
                 evals |-> acc.evals \o r.evals,
                 df |-> IF r.outcome = "kept" THEN acc.df \o df_logger ELSE acc.df,
                 error |-> r.error],
                c, all_results, resp, i + 1, text)

\* the plant comparison run again after the devices: the outcomes it may
\* have when the sort of the frame leaves the rows the cycle c compared
\* and the comparison is given the order by value and the rounding of c
ReplayPlant(acc, c, resp) ==
    IF acc.error \/ acc.df = <<>> THEN {acc}
    ELSE {IF HasText(GapNull(srt))
          THEN [acc EXCEPT !.error = TRUE]
          ELSE LET r == compare_latest_inverter_power(
                            acc.history, "ok",
                            Pad(SendClock(Last(c.evals), StartTime), PlantReadings),
                            ToKW(GapNull(srt)), c.ranked, c.half_up, PlantName, resp)
               IN [acc EXCEPT
                     !.history = r.history,
                     !.evals = Append(@, CallRecord("compare_latest_inverter_power",
                                                    "", r))] :
             srt \in {x \in SortedByTime(NotNull(acc.df)) :
                        IF c.error THEN HasText(GapNull(x))
                        ELSE /\ ~HasText(GapNull(x))
                             /\ Rows(ToKW(GapNull(x))) = c.frame}}

\* the cycle c run again with the fetches completing in another order: the
\* evaluator calls it may make, the ledger it may leave (swept at time at
\* if the cycle gets to its cleanup job) and whether an exception ends it
Replay(c, all_results, resp, at, text) ==
    LET start == [history |-> c.found, evals |-> <<>>, df |-> <<>>, error |-> FALSE]
    IN {[evals |-> r.evals,
         history |-> IF r.error THEN r.history
                     ELSE clean_old_messages(r.history, at),
         error |-> r.error] :
           r \in ReplayPlant(ReplayDevices(start, c, all_results, resp, 1, text),
                              c, resp)}

\* C30: when a cycle has ended, the cycle run again from the same ledger
\* and device files, with the same answers of the vendor, the same readings
\* of the clock and the same writes of the other page (each file opened and
\* closed by the two pages in the same order), but with the fetches
\* completing in any other order, makes the same evaluator calls with the
\* same alerts and resolutions in the same order and leaves the same ledger;
\* and the device files the device loop starts from are the same for every
\* order.
C30_FetchOrderDeterminism ==
    \A p \in Orders(Len(cycle.all_results)) :
       /\ (cycle.pc = "process" /\ cycle.i = 1) =>
             \A serial \in Serials :
                \E text \in 1..MaxText :
                   temp[serial] = FileAtDevice(cycle, Shuffled(cycle.all_results, p),
                                               serial, text)
       /\ cycle.pc \in {"done", "aborted"} =>
             \E resp \in Answers, text \in [Serials -> 1..MaxText] :
                Replay(cycle, Shuffled(cycle.all_results, p), resp, now, text)
                   = {[evals |-> cycle.evals, history |-> history,
                       error |-> cycle.error]}

\* both fetches have returned rows, that of B first; the cycle has ended
\* and has dispatched an alert
C30_Witness ==
    /\ cycle.pc = "done"
    /\ Len(cycle.all_results) = 2
    /\ cycle.all_results[1].serial = "B"
    /\ \A k \in 1..2 : cycle.all_results[k].results # <<>>
    /\ \E k \in 1..Len(cycle.evals) :
          \E j \in 1..Len(cycle.evals[k].sends) :
             cycle.evals[k].sends[j].branch = "send"

\* a fetch of the cycle is still to be submitted, waits or runs
InFlight == pool.submitted < PoolJobs \/ pool.queued > 0 \/ pool.running > 0

\* C29: never more than 10 fetches run at a time; when
\* fetch_all_data_parallel has returned, every submitted fetch has returned
\* or raised and every one that returned has been collected, whatever
\* number of them raised; and as long as a fetch is in flight or the
\* function has not returned, run has not saved a device file, no evaluator
\* has been called and the ledger is as the cycle found it.
C29_FetchPhasing ==
    /\ pool.running <= max_workers
    /\ pool.pc = "returned" =>
          /\ pool.submitted = PoolJobs
          /\ pool.queued = 0 /\ pool.running = 0
          /\ pool.returned + pool.raised = pool.submitted
          /\ pool.collected = pool.returned
          /\ pool.logged = pool.raised
          /\ {cycle.all_results[k].serial : k \in 1..Len(cycle.all_results)}
                = Serials \ Raising
    /\ (InFlight \/ pool.pc # "returned") =>
          /\ cycle.pc = "fetch"
          /\ cycle.pending # {}
          /\ cycle.evals = <<>>
          /\ ~cycle.swept
          /\ history = cycle.found
          /\ ~cycle.opened
          /\ \A serial \in Serials :
                /\ \A n \in 1..Len(cycle.log[serial]) :
                      cycle.log[serial][n].by # "alert"
                /\ temp[serial] = FileAtDevice(cycle, <<>>, serial, 1)

\* every worker is busy, a fetch waits for one, and a fetch that raised has
\* been logged
C29_Witness ==
    /\ pool.pc = "collect"
    /\ pool.running = max_workers
    /\ pool.queued > 0
    /\ pool.logged > 0

\* the fetches are over and the evaluators have dispatched an alert
C29_Evaluated ==
    /\ pool.pc = "returned"
    /\ cycle.pc = "done"
    /\ history # cycle.found

(***************************************************************************)
(* Properties of the ledger file between the writes of one invocation.     *)
(* The file after a call of the dispatcher inside an evaluator is the      *)
(* saved field of the send; a run stopped after that write leaves it.      *)
(***************************************************************************)
\* C31: the file an evaluator leaves when it is stopped after a write of
\* the dispatcher holds, under every issue id, either what the file held
\* before the evaluator or what it holds after it.
C31_InterruptedCycle ==
    [][(calls' = calls + 1) =>
          \A i \in 1..Len(call'.sends) :
             call'.sends[i].branch = "send" =>
                \A k \in (DOMAIN history) \cup (DOMAIN history')
                            \cup (DOMAIN call'.sends[i].saved) :
                   ~IsResolvedId(k) =>
                      KeyState(call'.sends[i].saved, k)
                         \in {KeyState(history, k), KeyState(history', k)}]_vars

\* C32: when an evaluator has resolved an issue, the file reflects what the
\* dispatcher did inside it: the entry the dispatcher recorded is in the
\* file as recorded, and no entry the dispatcher swept is.
C32_NoLostUpdate ==
    \A s \in Sends :
       (IsResolvedId(s.id) /\ s.branch = "send") =>
          /\ s.id \in DOMAIN history
          /\ history[s.id] = s.saved[s.id]
          /\ DOMAIN history \subseteq DOMAIN s.saved


\* C33: an entry of a staleness or underperformance issue leaves the file
\* through the resolve path only in an invocation that dispatched the
\* resolution message of that issue.
C33_NoSilentAllClear ==
    call.op \in {"check_inverter_time", "compare_latest_inverter_power"} =>
       \A k \in ResolvedByCall(call) :
          \E s \in Sends : s.id = ResolvedId(k) /\ s.branch = "send"


\* ---------------------------------------------------------------------
\* Properties of the resolve paths
\* ---------------------------------------------------------------------

\* C34: in a cycle in operating hours that started with a staleness entry
\* of a device in the ledger, check_inverter_time finding the device up to
\* date dispatches the resolution message of that entry.
C34_AllClearFollowsAlert ==
    \A i \in 1..Len(cycle.evals) :
       LET e == cycle.evals[i]
           k == IssueId(PlantName, e.serial, "outdated")
       IN (/\ e.op = "check_inverter_time"
           /\ e.ret = "True"
           /\ k \in DOMAIN cycle.found
           /\ OperatingHours)
          => \E j \in 1..Len(e.sends) :
                e.sends[j].id = ResolvedId(k) /\ e.sends[j].branch = "send"


\* C35: after check_low_power_period has run for a device without raising
\* low_power the file holds no low_power entry of the device, and after it
\* has run without raising power_drop the file holds no power_drop entry.
C35_LowPowerResolveCompleteness ==
    call.op = "check_low_power_period" =>
       /\ call.branch # "low_power" =>
             IssueId(PlantName, call.serial, "low_power") \notin DOMAIN history
       /\ call.branch # "power_drop" =>
             IssueId(PlantName, call.serial, "power_drop") \notin DOMAIN history


\* the rows of the frame at the reference time of the peer comparison
ReferenceRows ==
    LET valid == NotNull(input)
    IN AtTime(input, valid[Len(valid)].datetime)

\* the devices the peer comparison has sent a resolution for
Resolved == {call.marks[i][1] : i \in {j \in 1..Len(call.marks) : call.marks[j][2] = "resolved"}}

\* C36: after a peer comparison above the floor, no device with a value at
\* the reference time that was not flagged is left with an underperformance
\* entry, the best device included, and a device without a value at the
\* reference time is neither flagged nor resolved.
C36_PeerResolveCompleteness ==
    (call.op = "compare_latest_inverter_power" /\ call.branch = "compared") =>
       \A i \in 1..Len(ReferenceRows) :
          LET r == ReferenceRows[i]
          IN IF r.value # NaN
             THEN r.serial \notin Flagged =>
                     IssueId(PlantName, r.serial, "underperforming")
                        \notin DOMAIN history
             ELSE r.serial \notin Flagged \cup Resolved


\* ---------------------------------------------------------------------
\* Properties of suppression and expiry
\* ---------------------------------------------------------------------

\* C37: an invocation all of whose alerts were suppressed as duplicates
\* leaves the file as it found it: no timestamp is refreshed and no entry
\* of another issue is modified or swept.
C37_SuppressedLeavesLedger ==
    [][(/\ calls' = calls + 1
        /\ call'.sends # <<>>
        /\ \A i \in 1..Len(call'.sends) : call'.sends[i].branch = "duplicate")
       => history' = history]_vars

\* a suppressed alert whose entry is older than the clock, while the file
\* holds an entry of another issue that the sweep of the call had removed
\* from the copy in memory
C37_Witness ==
    \E s \in Sends :
       /\ s.branch = "duplicate"
       /\ s.id \in DOMAIN history
       /\ history[s.id].timestamp < Stamp(s)
       /\ \E k \in DOMAIN history :
             k # s.id /\ s.clock[2] - history[k].timestamp >= WindowSecs


\* C38: at exactly 15 minutes an entry has expired.  An alert in operating
\* hours for an issue whose entry holds the same details is suppressed if
\* and only if the entry is younger than 900 s at current_time, and neither
\* the ledger a dispatch saves nor the ledger the cleanup job leaves holds
\* an entry that was 900 s old or older when clean_old_messages read the
\* clock.
C38_ExpiryBoundary ==
    /\ \A s \in Sends :
          /\ (SameDetails(s) /\ s.branch # "closed") =>
                (s.branch = "duplicate" <=> PriorAge(s) < WindowSecs)
          /\ s.branch = "send" =>
                \A k \in DOMAIN s.saved :
                   s.clock[2] - s.saved[k].timestamp < WindowSecs
    /\ call.op = "cleanup" =>
          \A k \in DOMAIN history : now - history[k].timestamp < WindowSecs

\* an alert with the details of an entry that is exactly 900 s old was
\* dispatched again
C38_Witness ==
    \E s \in Sends :
       /\ SameDetails(s)
       /\ PriorAge(s) = WindowSecs
       /\ s.branch = "send"
       /\ ~IsResolvedId(s.id)


\* ---------------------------------------------------------------------
\* Properties of the evaluation of one device
\* ---------------------------------------------------------------------

\* the evaluations a step of the device loop has added
NewEvals == SubSeq(cycle'.evals, Len(cycle.evals) + 1, Len(cycle'.evals))

\* the device of the step is found stale
FoundStale ==
    \E i \in 1..Len(NewEvals) :
       /\ NewEvals[i].op = "check_inverter_time"
       /\ NewEvals[i].ret = "False"

\* what C39 asks of a step of the device loop but for the ledger: at most
\* one of low_power and power_drop is raised; for a stale device
\* check_low_power_period is not run and no alert of the two kinds is
\* dispatched, and its rows join the plant frame
OneKindAtMost(serial) ==
    /\ \A i \in 1..Len(NewEvals) :
          NewEvals[i].op = "check_low_power_period" =>
             /\ Len(NewEvals[i].sends) <= 1
             /\ NewEvals[i].serial = serial
    /\ FoundStale =>
          /\ \A i \in 1..Len(NewEvals) :
                /\ NewEvals[i].op # "check_low_power_period"
                /\ \A j \in 1..Len(NewEvals[i].sends) :
                      NewEvals[i].sends[j].id \notin LowPowerKeys(serial)
          /\ cycle'.df = cycle.df \o read_csv(temp[serial])

RECURSIVE SendsOf(_)
SendsOf(evals) ==
    IF evals = <<>> THEN <<>> ELSE Head(evals).sends \o SendsOf(Tail(evals))

\* the call dispatched and the send failed
Failed(s) == s.branch = "send" /\ s.ret = FALSE

\* the step is one of the device loop or the plant frame of
\* process_and_visualize_data
ProcessStep ==
    cycle.pc = "process" /\ cycle'.other = cycle.other
       /\ cycle'.writing = cycle.writing

\* a file the page cannot read: one of no byte, or one with a datetime that
\* is text, as a write of the other page at the same time leaves it
Unreadable(file) ==
    \/ file = Emptied
    \/ AnyValue(file) /\ \E n \in 1..Len(file) : file[n].datetime = Text

\* what C12 asks of such a step but for the ledger it leaves: a call that
\* hands nothing to the sink returns False; the entry of a send that failed
\* was saved before the send; no exception leaves the step unless the file
\* cannot be read or a cell of the file or of the frame is text, so that
\* the next device, the plant frame and the cleanup job come next; a device
\* whose file can be read and holds a value is evaluated and a frame
\* without text is compared, whatever failed before; no issue is dispatched twice in the cycle; and a call with the
\* details of an entry less than 15 minutes old is suppressed, although
\* nothing was delivered for that entry.
FailureContained ==
    LET serial == SerialOrder[cycle.i]
        news == SendsOf(NewEvals)
        all == SendsOf(cycle'.evals)
    IN /\ \A j \in 1..Len(news) :
             LET s == news[j]
             IN /\ (s.branch = "send" /\ ~s.posted) => s.ret = FALSE
                /\ Failed(s) =>
                      /\ s.id \in DOMAIN s.saved
                      /\ s.saved[s.id] = Entry(Stamp(s), s.details, s.message)
                /\ (Open(s) /\ SameDetails(s) /\ PriorAge(s) < WindowSecs)
                      => (s.branch = "duplicate" /\ ~s.posted)
       /\ \A j, k \in 1..Len(all) :
             (j # k /\ all[j].branch = "send" /\ all[k].branch = "send")
                => all[j].id # all[k].id
       /\ cycle.i <= Len(SerialOrder) =>
             /\ cycle'.i = cycle.i + 1
             /\ cycle'.error =>
                   (Unreadable(temp[serial]) \/ HasText(read_csv(temp[serial])))
             /\ ~cycle'.error => cycle'.pc = "process"
             /\ (AnyValue(read_csv(temp[serial])) /\ ~Unreadable(temp[serial])) =>
                   (NewEvals # <<>> /\ NewEvals[1].serial = serial)
       /\ cycle.i > Len(SerialOrder) =>
             /\ cycle'.error => HasText(cycle.df)
             /\ ~cycle'.error => cycle'.pc = "cleanup"
             /\ (~cycle'.error /\ cycle.df # <<>>) =>
                   (/\ Len(NewEvals) = 1
                    /\ NewEvals[1].op = "compare_latest_inverter_power")

Resolution == 2

\* timedelta(minutes=15), lines 423 and 426
QuarterMinutes == 15

\* timedelta(minutes=2), alert.py line 429
RefreshOffsetMinutes == 2

\* timedelta(minutes=3), all_plant.py line 73 and energy_viewer.py line 85
AllPlantOffsetMinutes == 3

\* timedelta(minutes=m)
Minutes(m) == m * 60 * Resolution

\* datetime(hour, minute, second, microsecond) of the day
AtClock(hour, minute, second, fraction) ==
    ((hour * 60 + minute) * 60 + second) * Resolution + fraction

\* current_time.hour and current_time.minute
ClockHour(t) == (t \div Minutes(60)) % 24
ClockMinute(t) == (t \div Minutes(1)) % 60

\* current_time.replace(minute=minute, second=0, microsecond=0)
ReplaceMinute(t, minute) ==
    (t \div Minutes(60)) * Minutes(60) + Minutes(minute)

\* lines 425-426: while next_refresh <= current_time, with the number of
\* times the body has run
RECURSIVE RefreshLoop(_, _, _)
RefreshLoop(next_refresh, current_time, n) ==
    IF next_refresh <= current_time
    THEN RefreshLoop(next_refresh + Minutes(QuarterMinutes), current_time, n + 1)
    ELSE [next_refresh |-> next_refresh, iterations |-> n]

\* lines 419-426: the quarter after current_time
NextQuarter(current_time) ==
    LET minutes == (ClockMinute(current_time) \div QuarterMinutes) * QuarterMinutes
        floor == ReplaceMinute(current_time, minutes)
        next_refresh == IF floor = current_time
                        THEN floor + Minutes(QuarterMinutes) ELSE floor
    IN RefreshLoop(next_refresh, current_time, 0)

\* a refresh time that is the quarter current_time lies in plus the offset
calculate_next_refresh_time_floor(current_time) ==
    LET minutes == (ClockMinute(current_time) \div QuarterMinutes) * QuarterMinutes
    IN [ret |-> ReplaceMinute(current_time, minutes) + Minutes(RefreshOffsetMinutes),
        iterations |-> 0]

\* alert.py, lines 418-429
calculate_next_refresh_time(current_time) ==
    LET r == NextQuarter(current_time)
    IN [ret |-> r.next_refresh + Minutes(RefreshOffsetMinutes),
        iterations |-> r.iterations]

\* all_plant.py, lines 61-73, and energy_viewer.py, lines 73-85
all_plant_calculate_next_refresh_time(current_time) ==
    LET r == NextQuarter(current_time)
    IN [ret |-> r.next_refresh + Minutes(AllPlantOffsetMinutes),
        iterations |-> r.iterations]

\* auto_refresh_timer, line 436: the page refreshes only in working hours
InWorkingHours(current_time) ==
    OpenHour <= ClockHour(current_time) /\ ClockHour(current_time) <= CloseHour

\* the times the page is run at: around every quarter of the first and the
\* last working hour and of the last hour of the day
RefreshTimes ==
    {AtClock(hour, minute, second, fraction) :
        hour \in {OpenHour, CloseHour, 23},
        minute \in {0, 1, 14, 15, 16, 29, 30, 44, 45, 59},
        second \in {0, 1, 59},
        fraction \in {0, Resolution - 1}}

RefreshRecord(page, r) ==
    [op |-> "calculate_next_refresh_time", page |-> page, ret |-> r.ret,
     iterations |-> r.iterations]

RefreshInit ==
    /\ now = StartTime
    /\ ticks = 0
    /\ calls = 0
    /\ history = EmptyHistory
    /\ call = NoCall
    /\ disk = "ok"
    /\ input \in RefreshTimes
    /\ temp = NoFiles
    /\ cycle = NoCycle
    /\ pool = NoPool
    /\ sent = SentOf(EmptyHistory)

\* alert.py, lines 433-437
AlertRefresh ==
    /\ calls = 0
    /\ InWorkingHours(input)
    /\ call' = RefreshRecord("alert", calculate_next_refresh_time(input))
    /\ calls' = calls + 1
    /\ UNCHANGED <<now, ticks, history, disk, input, temp, cycle, pool, sent>>

\* all_plant.py, lines 77-81
AllPlantRefresh ==
    /\ calls = 0
    /\ InWorkingHours(input)
    /\ call' = RefreshRecord("all_plant", all_plant_calculate_next_refresh_time(input))
    /\ calls' = calls + 1
    /\ UNCHANGED <<now, ticks, history, disk, input, temp, cycle, pool, sent>>

RefreshNext ==
    \/ AlertRefresh
    \/ AllPlantRefresh

RefreshSpec == RefreshInit /\ [][RefreshNext]_vars

\* the offset of the page the function belongs to
PageOffset == IF call.page = "alert" THEN Minutes(RefreshOffsetMinutes)
              ELSE Minutes(AllPlantOffsetMinutes)

\* r is, plus the offset, the first quarter-hour boundary strictly after
\* current_time, found in at most one round of the loop
IsNextRefresh(current_time, r, offset) ==
    LET boundary == r.ret - offset
    IN /\ r.iterations <= 1
       /\ boundary % Minutes(QuarterMinutes) = 0
       /\ ClockMinute(boundary) \in {0, 15, 30, 45}
       /\ boundary > current_time
       /\ boundary - Minutes(QuarterMinutes) <= current_time
       /\ r.ret - current_time > offset
       /\ r.ret - current_time <= offset + Minutes(QuarterMinutes)

\* C40: calculate_next_refresh_time leaves its loop after at most one
\* round and returns, plus the offset of the page, the first quarter-hour
\* boundary strictly after current_time: the result is later than
\* current_time by more than the offset and by at most the offset and 15
\* minutes.  This holds of the call a page has made in working hours and
\* of the function at every other time of the clock.
C40_NextRefreshTime ==
    /\ call.op = "calculate_next_refresh_time" =>
          IsNextRefresh(input, call, PageOffset)
    /\ \A t \in RefreshTimes :
          /\ IsNextRefresh(t, calculate_next_refresh_time(t),
                           Minutes(RefreshOffsetMinutes))
          /\ IsNextRefresh(t, all_plant_calculate_next_refresh_time(t),
                           Minutes(AllPlantOffsetMinutes))

\* the function was called on a quarter-hour boundary and has returned the
\* next one plus two minutes
C40_Witness ==
    /\ call.op = "calculate_next_refresh_time"
    /\ call.page = "alert"
    /\ input % Minutes(QuarterMinutes) = 0
    /\ call.ret = input + Minutes(QuarterMinutes) + Minutes(RefreshOffsetMinutes)

=============================================================================
